---- MODULE Spec2Model ----
(***************************************************************************)
(* Model of tetratelabs/telemetry: the scope registry (package scope), the *)
(* function Logger backend (package function), the telemetry.Level         *)
(* enumeration, the level-configuration applier (package group) and the    *)
(* older level.Wrap based registry that the repository still carries.      *)
(*                                                                         *)
(* Go strings are sequences of one-character strings, so that ToLower,     *)
(* Trim, Split and ContainsAny are computed and not assumed.  Go pointers  *)
(* are indices into heaps (sequences); index 0 is nil.                     *)
(***************************************************************************)
EXTENDS Integers, Sequences, FiniteSets, TLC

VARIABLES
    loggers,              \* heap of function.Logger objects
    cells,                \* heap of int32 level cells (the *int32 targets)
    scs,                  \* heap of scope objects (package scope)
    wrappers,             \* heap of level wrappers (package level)
    scopes,               \* scope.scopes: normalized name -> scope pointer
    uninitialized,        \* scope.uninitialized: [isNil, m: name -> list of scope pointers]
    defaultLogger,        \* scope.defaultLogger (0 = nil)
    PanicOnUninitialized, \* scope.PanicOnUninitialized
    out,                  \* records handed to the Emit function of the backend
    count,                \* mockMetric.count of every metric
    handles,              \* the loggers the caller holds, with how each was obtained
    reqCtx,               \* the context.Context the caller carries
    lock,                 \* scope.lock: the goroutine that holds it (0 = free)
    threads,              \* the call each goroutine is in, its position and locals
    metricSink,           \* telemetry.metricSink (0 = nil)
    callbacks,            \* telemetry.callbacks
    invoked,              \* the calls the callbacks received: callback and sink
    arrays,               \* heap of the arrays behind the []interface{} of contexts
    ctxs,                 \* the contexts the caller holds, slices in place of lists
    panicked              \* the runtime panic that ended the process ("" = none)

vars == <<loggers, cells, scs, wrappers, scopes, uninitialized, defaultLogger,
          PanicOnUninitialized, out, count, handles, reqCtx, lock, threads,
          metricSink, callbacks, invoked, arrays, ctxs, panicked>>

sinkVars == <<metricSink, callbacks, invoked>>
ctxVars == <<arrays, ctxs>>

----------------------------------------------------------------------------
(* Bounds of the model *)

MaxHandles == 3
MaxPending == 2
MaxLogs == 1
MaxLayers == 3
MaxCallbacks == 3
MaxContexts == 4

----------------------------------------------------------------------------
(* Go strings *)

Whitespace == {"\r", "\n", "\t", " "}

lowerChar(c) ==
    CASE c = "A" -> "a"
      [] c = "B" -> "b"
      [] c = "C" -> "c"
      [] c = "D" -> "d"
      [] c = "E" -> "e"
      [] c = "F" -> "f"
      [] c = "G" -> "g"
      [] c = "H" -> "h"
      [] c = "I" -> "i"
      [] c = "J" -> "j"
      [] c = "K" -> "k"
      [] c = "L" -> "l"
      [] c = "M" -> "m"
      [] c = "N" -> "n"
      [] c = "O" -> "o"
      [] c = "P" -> "p"
      [] c = "Q" -> "q"
      [] c = "R" -> "r"
      [] c = "S" -> "s"
      [] c = "T" -> "t"
      [] c = "U" -> "u"
      [] c = "V" -> "v"
      [] c = "W" -> "w"
      [] c = "X" -> "x"
      [] c = "Y" -> "y"
      [] c = "Z" -> "z"
      [] OTHER -> c

\* strings.ToLower
ToLower(s) == [i \in 1..Len(s) |-> lowerChar(s[i])]

RECURSIVE TrimLeft(_)
TrimLeft(s) ==
    IF s # <<>> /\ Head(s) \in Whitespace THEN TrimLeft(Tail(s)) ELSE s

RECURSIVE TrimRight(_)
TrimRight(s) ==
    IF s # <<>> /\ s[Len(s)] \in Whitespace
    THEN TrimRight(SubSeq(s, 1, Len(s) - 1)) ELSE s

\* strings.Trim(s, "\r\n\t ")
Trim(s) == TrimRight(TrimLeft(s))

\* strings.ContainsAny(s, chars)
ContainsAny(s, chars) == \E i \in 1..Len(s) : s[i] \in chars

\* strings.Split(s, sep) for a one-character separator: never empty, one more
\* piece than there are separators.
RECURSIVE Split(_, _)
Split(s, sep) ==
    IF \A i \in 1..Len(s) : s[i] # sep THEN <<s>>
    ELSE LET p == CHOOSE i \in 1..Len(s) :
                      s[i] = sep /\ \A j \in 1..(i - 1) : s[j] # sep
         IN <<SubSeq(s, 1, p - 1)>> \o Split(SubSeq(s, p + 1, Len(s)), sep)

----------------------------------------------------------------------------
(* telemetry.Level *)

LevelNone == 0
LevelError == 1
LevelInfo == 5
LevelDebug == 10

Levels == {LevelNone, LevelError, LevelInfo, LevelDebug}

sNone == <<"n", "o", "n", "e">>
sError == <<"e", "r", "r", "o", "r">>
sInfo == <<"i", "n", "f", "o">>
sDebug == <<"d", "e", "b", "u", "g">>

\* Level.String: levelToString[v], the empty string for a value not in the map
LevelString(v) ==
    CASE v = LevelNone -> sNone
      [] v = LevelError -> sError
      [] v = LevelInfo -> sInfo
      [] v = LevelDebug -> sDebug
      [] OTHER -> <<>>

\* a FromLevel that lowercases and trims the string before the lookup
FromLevelLoose(s) ==
    CASE ToLower(Trim(s)) = sNone -> [lvl |-> LevelNone, ok |-> TRUE]
      [] ToLower(Trim(s)) = sError -> [lvl |-> LevelError, ok |-> TRUE]
      [] ToLower(Trim(s)) = sInfo -> [lvl |-> LevelInfo, ok |-> TRUE]
      [] ToLower(Trim(s)) = sDebug -> [lvl |-> LevelDebug, ok |-> TRUE]
      [] OTHER -> [lvl |-> LevelNone, ok |-> FALSE]

\* telemetry.FromLevel: stringToLevel[level] and whether the key is present
FromLevel(s) ==
    CASE s = sNone -> [lvl |-> LevelNone, ok |-> TRUE]
      [] s = sError -> [lvl |-> LevelError, ok |-> TRUE]
      [] s = sInfo -> [lvl |-> LevelInfo, ok |-> TRUE]
      [] s = sDebug -> [lvl |-> LevelDebug, ok |-> TRUE]
      [] OTHER -> [lvl |-> LevelNone, ok |-> FALSE]

\* a SetLevel that stores the integer it is given
storeAsGiven(lvl) == lvl

\* The clamp switch of function.Logger.SetLevel and scope.SetLevel
clampLevel(lvl) ==
    IF lvl < LevelError THEN LevelNone
    ELSE IF lvl < LevelInfo THEN LevelError
    ELSE IF lvl < LevelDebug THEN LevelInfo
    ELSE LevelDebug

----------------------------------------------------------------------------
(* Go values of type interface{} in key-value lists *)

Str(s) == [t |-> "string", v |-> s]
IntVal(s) == [t |-> "int", v |-> s]
NilVal == [t |-> "nil", v |-> <<>>]
IsString(x) == x.t = "string"

Key == <<"s", "c", "o", "p", "e">>
Missing == Str(<<"(", "M", "I", "S", "S", "I", "N", "G", ")">>)

\* if len(keyValuePairs)%2 != 0 { keyValuePairs = append(keyValuePairs, "(MISSING)") }
padMissing(kvs) == IF Len(kvs) % 2 # 0 THEN Append(kvs, Missing) ELSE kvs

\* the loop appending only the pairs whose key is a string
RECURSIVE stringKeyPairs(_)
stringKeyPairs(kvs) ==
    IF Len(kvs) < 2 THEN <<>>
    ELSE (IF IsString(kvs[1]) THEN <<kvs[1], kvs[2]>> ELSE <<>>)
         \o stringKeyPairs(SubSeq(kvs, 3, Len(kvs)))

----------------------------------------------------------------------------
(* context.Context: the chain of values stored under ctxKVP, newest last *)

NilCtx == [isNil |-> TRUE, layers |-> <<>>]
Background == [isNil |-> FALSE, layers |-> <<>>]

\* keyValuePairs, _ = ctx.Value(ctxKVP).([]interface{})
KeyValuesFromContext(ctx) ==
    IF ctx.layers = <<>> THEN <<>>
    ELSE LET top == ctx.layers[Len(ctx.layers)]
         IN IF top.isList THEN top.kvs ELSE <<>>

\* a KeyValuesToContext that stores the new pairs without the stored ones
KeyValuesToContextFresh(ctx, kvs) ==
    IF Len(kvs) = 0 THEN ctx
    ELSE [ctx EXCEPT !.layers = Append(@, [isList |-> TRUE, kvs |-> padMissing(kvs)])]

\* KeyValuesToContext: a context on top of ctx that holds the stored list
\* followed by the arguments
KeyValuesToContext(ctx, kvs) ==
    IF Len(kvs) = 0 THEN ctx
    ELSE [ctx EXCEPT !.layers =
             Append(@, [isList |-> TRUE,
                        kvs |-> KeyValuesFromContext(ctx) \o padMissing(kvs)])]

\* a RemoveKeyValuesFromContext that returns the context it was given
RemoveKeyValuesKept(ctx) == ctx

\* context.WithValue(ctx, ctxKVP, nil)
RemoveKeyValuesFromContext(ctx) ==
    [ctx EXCEPT !.layers = Append(@, [isList |-> FALSE, kvs |-> <<>>])]

----------------------------------------------------------------------------
(* Finite maps *)

EmptyMap == [x \in {} |-> 0]
Put(f, k, v) == [x \in (DOMAIN f) \cup {k} |-> IF x = k THEN v ELSE f[x]]

----------------------------------------------------------------------------
(* The program state as one record, threaded through the calls a handler  *)
(* makes.  who is the handle a log call was made on (bookkeeping only).    *)

Ref(k, i) == [k |-> k, i |-> i]
NilRef == Ref("nil", 0)
NoMetric == ""

S == [lg |-> loggers, ce |-> cells, sh |-> scs, wr |-> wrappers, sc |-> scopes,
      un |-> uninitialized, dl |-> defaultLogger, out |-> out, cnt |-> count,
      pn |-> panicked, ret |-> NilRef, ok |-> FALSE, errs |-> <<>>, who |-> 0]

Commit(st) ==
    /\ loggers' = st.lg
    /\ cells' = st.ce
    /\ scs' = st.sh
    /\ wrappers' = st.wr
    /\ scopes' = st.sc
    /\ uninitialized' = st.un
    /\ defaultLogger' = st.dl
    /\ out' = st.out
    /\ count' = st.cnt
    /\ panicked' = st.pn

\* a runtime panic: the first one ends the process
Panic(st, what) == IF st.pn = "" THEN [st EXCEPT !.pn = what] ELSE st

----------------------------------------------------------------------------
(* package function: Logger *)

\* NewLogger: level Info, context.Background()
NewLogger(st, emitFunc) ==
    LET c == Len(st.ce) + 1
        n == Len(st.lg) + 1
    IN [st EXCEPT !.ce = Append(@, LevelInfo),
                  !.lg = Append(@, [ctx |-> Background, args |-> <<>>,
                                    metric |-> NoMetric, level |-> c,
                                    emitFunc |-> emitFunc,
                                    scopedLevels |-> EmptyMap]),
                  !.ret = Ref("logger", n)]

\* Logger.scope: the string that follows the first "scope" string in args
fnScope(args) ==
    LET hits == {i \in 1..Len(args) :
                    /\ IsString(args[i]) /\ args[i].v = Key
                    /\ Len(args) > i
                    /\ IsString(args[i + 1])}
    IN IF hits = {} THEN <<>>
       ELSE args[(CHOOSE i \in hits : \A j \in hits : i <= j) + 1].v

\* Logger.Level
fnLevel(st, l) ==
    LET o == st.lg[l]
        sc == fnScope(o.args)
    IN IF sc \in DOMAIN o.scopedLevels THEN o.scopedLevels[sc]
       ELSE st.ce[o.level]

\* Logger.SetLevel
fnSetLevel(st, l, level) ==
    LET v == clampLevel(level)
        sc == fnScope(st.lg[l].args)
    IN IF sc = <<>>
       THEN [st EXCEPT !.ce[st.lg[l].level] = v]
       ELSE [st EXCEPT !.lg[l].scopedLevels = Put(@, sc, v)]

\* an enabled that lets through only the levels below the logger's level
fnEnabledBelow(st, l, level) == st.lg[l].emitFunc /\ level < fnLevel(st, l)

\* Logger.enabled
fnEnabled(st, l, level) == st.lg[l].emitFunc /\ level <= fnLevel(st, l)

\* Logger.Clone: the args are copied, the level pointer is shared, the
\* scopedLevels map is copied entry by entry
fnClone(st, l) ==
    LET n == Len(st.lg) + 1
    IN [st EXCEPT !.lg = Append(@, st.lg[l]), !.ret = Ref("logger", n)]

\* a With that appends the pairs to the receiver's own args and returns it
fnWithInPlace(st, l, keyValues) ==
    [st EXCEPT !.lg[l].args = @ \o stringKeyPairs(padMissing(keyValues)),
               !.ret = Ref("logger", l)]

\* Logger.With
fnWith(st, l, keyValues) ==
    IF Len(keyValues) = 0 THEN [st EXCEPT !.ret = Ref("logger", l)]
    ELSE LET c == fnClone(st, l)
         IN [c EXCEPT !.lg[c.ret.i].args =
                          @ \o stringKeyPairs(padMissing(keyValues))]

\* Logger.Context
fnContext(st, l, ctx) ==
    LET c == fnClone(st, l) IN [c EXCEPT !.lg[c.ret.i].ctx = ctx]

\* Logger.Metric
fnMetric(st, l, m) ==
    LET c == fnClone(st, l) IN [c EXCEPT !.lg[c.ret.i].metric = m]

\* an emit that hands the logger's values over as the values of the context
\* and the values of the context as the logger's
fnEmitSwapped(st, l, level, msg, err, keyValues) ==
    [st EXCEPT !.out = Append(@,
        [level |-> level, msg |-> msg, err |-> err,
         FromContext |-> st.lg[l].args,
         FromLogger |-> KeyValuesFromContext(st.lg[l].ctx),
         FromMethod |-> keyValues,
         by |-> st.who])]

\* Logger.emit: the three groups of values are handed to the Emit function
fnEmit(st, l, level, msg, err, keyValues) ==
    LET o == st.lg[l]
    IN IF o.ctx.isNil THEN Panic(st, "nil pointer dereference")
       ELSE [st EXCEPT !.out = Append(@,
                [level |-> level, msg |-> msg, err |-> err,
                 FromContext |-> KeyValuesFromContext(o.ctx),
                 FromLogger |-> o.args,
                 FromMethod |-> keyValues,
                 by |-> st.who])]

\* mockMetric.RecordContext(ctx, 1)
RecordContext(st, m) == [st EXCEPT !.cnt[m] = @ + 1]

\* Logger.Debug
fnDebug(st, l, msg, keyValues) ==
    IF ~fnEnabled(st, l, LevelDebug) THEN st
    ELSE fnEmit(st, l, LevelDebug, msg, "", keyValues)

\* Logger.Info
fnInfo(st, l, msg, keyValues) ==
    LET m == st.lg[l].metric
        st1 == IF m # NoMetric THEN RecordContext(st, m) ELSE st
    IN IF ~fnEnabled(st1, l, LevelInfo) THEN st1
       ELSE fnEmit(st1, l, LevelInfo, msg, "", keyValues)

\* Logger.Error
fnError(st, l, msg, err, keyValues) ==
    LET m == st.lg[l].metric
        st1 == IF m # NoMetric THEN RecordContext(st, m) ELSE st
    IN IF ~fnEnabled(st1, l, LevelError) THEN st1
       ELSE fnEmit(st1, l, LevelError, msg, err, keyValues)

----------------------------------------------------------------------------
(* package scope: the scope type *)

Separators == {":", ",", "."}

\* uninitialized[name] = append(uninitialized[name], sc): a read of a nil map
\* yields the zero value, an assignment to an entry of a nil map panics
appendUninitialized(st, name, p) ==
    IF st.un.isNil THEN Panic(st, "assignment to entry in nil map")
    ELSE LET old == IF name \in DOMAIN st.un.m THEN st.un.m[name] ELSE <<>>
         IN [st EXCEPT !.un.m = Put(@, name, Append(old, p))]

\* scope.Level
scLevel(st, p) ==
    IF st.sh[p].logger # 0 THEN fnLevel(st, st.sh[p].logger)
    ELSE st.ce[st.sh[p].level]

\* scope.SetLevel
scSetLevel(st, p, lvl) ==
    IF st.sh[p].logger # 0 THEN fnSetLevel(st, st.sh[p].logger, lvl)
    ELSE IF st.sh[p].level = 0 THEN Panic(st, "nil pointer dereference")
    ELSE [st EXCEPT !.ce[st.sh[p].level] = clampLevel(lvl)]

\* scope.Clone: the logger is cloned when there is one; the kvs are copied,
\* the level pointer is shared; the clone is not put on the pending list
scClone(st, p) ==
    LET s == st.sh[p]
        st1 == IF s.logger # 0 THEN fnClone(st, s.logger) ELSE st
        lg == IF s.logger # 0 THEN st1.ret.i ELSE 0
        n == Len(st.sh) + 1
    IN [st1 EXCEPT !.sh = Append(@, [s EXCEPT !.logger = lg]),
                   !.ret = Ref("scope", n)]

\* make([]interface{}, len(s.kvs), ...) followed by copy(sc.kvs, keyValuePairs):
\* the first len(s.kvs) slots receive the leading arguments, not the
\* receiver's pairs; slots the arguments do not reach keep the zero value
copyInto(n, keyValuePairs) ==
    [i \in 1..n |-> IF i <= Len(keyValuePairs) THEN keyValuePairs[i] ELSE NilVal]

\* scope.With
scWith(st, p, keyValuePairs) ==
    LET s == st.sh[p]
        kvp == padMissing(keyValuePairs)
        n == Len(st.sh) + 1
    IN IF Len(keyValuePairs) = 0 THEN [st EXCEPT !.ret = Ref("scope", p)]
       ELSE IF s.logger # 0 THEN fnWith(st, s.logger, kvp)
       ELSE LET sc == [logger |-> 0,
                       kvs |-> copyInto(Len(s.kvs), kvp) \o stringKeyPairs(kvp),
                       ctx |-> s.ctx, metric |-> s.metric, name |-> s.name,
                       description |-> s.description, level |-> s.level]
                st1 == [st EXCEPT !.sh = Append(@, sc)]
            IN [appendUninitialized(st1, s.name, n) EXCEPT !.ret = Ref("scope", n)]

\* scope.Context
scContext(st, p, ctx) ==
    IF st.sh[p].logger # 0 THEN fnContext(st, st.sh[p].logger, ctx)
    ELSE LET c == scClone(st, p)
             st1 == [c EXCEPT !.sh[c.ret.i].ctx = ctx]
         IN [appendUninitialized(st1, st.sh[p].name, c.ret.i) EXCEPT !.ret = c.ret]

\* scope.Metric
scMetric(st, p, m) ==
    IF st.sh[p].logger # 0 THEN fnMetric(st, st.sh[p].logger, m)
    ELSE LET c == scClone(st, p)
             st1 == [c EXCEPT !.sh[c.ret.i].metric = m]
         IN [appendUninitialized(st1, st.sh[p].name, c.ret.i) EXCEPT !.ret = c.ret]

\* a check that panics whether the flag is set or not
panicAlways(st, what) == Panic(st, what)

\* if PanicOnUninitialized { panic(...) }: the statement that follows the
\* forwarding of every log call
panicCheck(st, what) ==
    IF PanicOnUninitialized THEN Panic(st, what) ELSE st

\* scope.Debug
scDebug(st, p, msg, kv) ==
    panicCheck(IF st.sh[p].logger # 0 THEN fnDebug(st, st.sh[p].logger, msg, kv)
               ELSE st,
               "calling Debug on uninitialized logger")

\* scope.Info
scInfo(st, p, msg, kv) ==
    panicCheck(IF st.sh[p].logger # 0 THEN fnInfo(st, st.sh[p].logger, msg, kv)
               ELSE st,
               "calling Info on uninitialized logger")

\* scope.Error
scError(st, p, msg, err, kv) ==
    panicCheck(IF st.sh[p].logger # 0
               THEN fnError(st, st.sh[p].logger, msg, err, kv) ELSE st,
               "calling Error on uninitialized logger")

----------------------------------------------------------------------------
(* package scope: the registry *)

\* DefaultLevel
DefaultLevel(st) == IF st.dl # 0 THEN fnLevel(st, st.dl) ELSE LevelNone

\* name = strings.ToLower(strings.Trim(name, "\r\n\t "))
normalize(name) == ToLower(Trim(name))

\* a newScope that does not hand the scope a logger
newScopeUnbound(st, name, description) ==
    [st EXCEPT !.ce = Append(@, DefaultLevel(st)),
               !.sh = Append(@, [logger |-> 0, kvs |-> <<Str(Key), Str(name)>>,
                                 ctx |-> Background, metric |-> NoMetric,
                                 name |-> name, description |-> description,
                                 level |-> Len(st.ce) + 1]),
               !.sc = Put(@, name, Len(st.sh) + 1)]

\* the body of if !ok { ... } in Register: a scope with a level cell of its
\* own holding DefaultLevel(), bound at once when there is a default logger
newScope(st, name, description) ==
    LET c == Len(st.ce) + 1
        n == Len(st.sh) + 1
        sc == [logger |-> 0, kvs |-> <<Str(Key), Str(name)>>, ctx |-> Background,
               metric |-> NoMetric, name |-> name, description |-> description,
               level |-> c]
        a == [st EXCEPT !.ce = Append(@, DefaultLevel(st)), !.sh = Append(@, sc)]
        b == IF a.dl # 0
             THEN LET w == fnWith(a, a.dl, <<Str(Key), Str(name)>>)
                  IN [w EXCEPT !.sh[n].logger = w.ret.i]
             ELSE a
    IN [b EXCEPT !.sc = Put(@, name, n)]

\* the end of Register: the scope of the name is put on the pending list when
\* there is no default logger, and returned
registered(st, name) ==
    LET p == st.sc[name]
        st2 == IF st.dl = 0 THEN appendUninitialized(st, name, p) ELSE st
    IN [st2 EXCEPT !.ret = Ref("scope", p)]

\* a Register that does not look the name up
RegisterAnew(st, rawName, description) ==
    IF ContainsAny(rawName, Separators) THEN [st EXCEPT !.ret = NilRef]
    ELSE registered(newScope(st, normalize(rawName), description),
                    normalize(rawName))

\* a Register that accepts every name
RegisterUnchecked(st, rawName, description) ==
    registered(IF normalize(rawName) \in DOMAIN st.sc THEN st
               ELSE newScope(st, normalize(rawName), description),
               normalize(rawName))

\* Register
Register(st, rawName, description) ==
    IF ContainsAny(rawName, Separators) THEN [st EXCEPT !.ret = NilRef]
    ELSE LET name == normalize(rawName)
         IN registered(IF name \in DOMAIN st.sc THEN st
                       ELSE newScope(st, name, description), name)

\* a Find that looks the name up as it was given
FindExact(st, rawName) ==
    IF rawName \in DOMAIN st.sc
    THEN [st EXCEPT !.ret = Ref("scope", st.sc[rawName]), !.ok = TRUE]
    ELSE [st EXCEPT !.ret = NilRef, !.ok = FALSE]

\* Find
Find(st, rawName) ==
    LET name == normalize(rawName)
    IN IF name \in DOMAIN st.sc
       THEN [st EXCEPT !.ret = Ref("scope", st.sc[name]), !.ok = TRUE]
       ELSE [st EXCEPT !.ret = NilRef, !.ok = FALSE]

\* for _, sc := range scopes { sc.SetLevel(lvl) }
RECURSIVE setEach(_, _, _)
setEach(st, names, lvl) ==
    IF names = {} THEN st
    ELSE LET n == CHOOSE x \in names : TRUE
         IN setEach(scSetLevel(st, st.sc[n], lvl), names \ {n}, lvl)

\* a SetAllScopes that sets the level of the default logger only
SetAllScopesDefaultOnly(st, lvl) ==
    IF st.dl # 0 THEN fnSetLevel(st, st.dl, lvl) ELSE st

\* a SetAllScopes that walks the scopes whether there is a default logger or not
SetAllScopesUnguarded(st, lvl) ==
    setEach(IF st.dl # 0 THEN fnSetLevel(st, st.dl, lvl) ELSE st, DOMAIN st.sc, lvl)

\* SetAllScopes
SetAllScopes(st, lvl) ==
    IF st.dl # 0
    THEN setEach(fnSetLevel(st, st.dl, lvl), DOMAIN st.sc, lvl)
    ELSE st

\* SetDefaultLevel
SetDefaultLevel(st, lvl) ==
    IF st.dl # 0 THEN fnSetLevel(st, st.dl, lvl) ELSE st

\* a replay that does not give the logger the level of the scope
replayOneLevelless(st, l, p) ==
    LET sc == st.sh[p]
        a == IF ~sc.ctx.isNil THEN fnContext(st, l, sc.ctx)
             ELSE [st EXCEPT !.ret = Ref("logger", l)]
        b == IF sc.metric # NoMetric THEN fnMetric(a, a.ret.i, sc.metric) ELSE a
        c == IF Len(sc.kvs) > 0 THEN fnWith(b, b.ret.i, sc.kvs) ELSE b
    IN [c EXCEPT !.sh[p] = [@ EXCEPT !.logger = c.ret.i, !.kvs = <<>>,
                                     !.ctx = NilCtx, !.metric = NoMetric,
                                     !.level = 0]]

\* the body of the inner loop of UseLogger for one pending scope sc, with l
\* the logger built so far for the name; the result's ret is the new l
replayOne(st, l, p) ==
    LET sc == st.sh[p]
        a == IF ~sc.ctx.isNil THEN fnContext(st, l, sc.ctx)
             ELSE [st EXCEPT !.ret = Ref("logger", l)]
        b == IF sc.metric # NoMetric THEN fnMetric(a, a.ret.i, sc.metric) ELSE a
        c == IF Len(sc.kvs) > 0 THEN fnWith(b, b.ret.i, sc.kvs) ELSE b
        d == fnSetLevel(c, c.ret.i, scLevel(c, p))
    IN [d EXCEPT !.sh[p] = [@ EXCEPT !.logger = c.ret.i, !.kvs = <<>>,
                                     !.ctx = NilCtx, !.metric = NoMetric,
                                     !.level = 0]]

\* for _, sc := range scopes { ... } over the pending list of one name
RECURSIVE replayList(_, _, _)
replayList(st, l, list) ==
    IF list = <<>> THEN st
    ELSE LET a == replayOne(st, l, Head(list))
         IN replayList(a, a.ret.i, Tail(list))

\* for _, scopes := range uninitialized { l := defaultLogger.Clone(); ... }
\* The loggers of different names are built from separate clones, so the
\* order in which the map is walked does not change what is built.
RECURSIVE replayAll(_, _)
replayAll(st, names) ==
    IF names = {} THEN st
    ELSE LET n == CHOOSE x \in names : TRUE
             c == fnClone(st, st.dl)
         IN replayAll(replayList(c, c.ret.i, st.un.m[n]), names \ {n})

\* a bind that leaves the pending table as it is after the replay
bindKeeping(st, b) ==
    LET c == fnClone(st, b)
        a == [c EXCEPT !.dl = c.ret.i]
        r == replayAll(a, DOMAIN a.un.m)
    IN [r EXCEPT !.ret = NilRef]

\* the part of UseLogger that follows the two early returns
bind(st, b) ==
    LET c == fnClone(st, b)
        a == [c EXCEPT !.dl = c.ret.i]
        r == replayAll(a, DOMAIN a.un.m)
    IN [r EXCEPT !.un = [isNil |-> TRUE, m |-> EmptyMap], !.ret = NilRef]

\* a UseLogger without the defaultLogger != nil return
UseLoggerAgain(st, b) == IF b = 0 THEN st ELSE bind(st, b)

\* UseLogger; b is the logger passed in (0 = nil)
UseLogger(st, b) ==
    IF b = 0 THEN st
    ELSE IF st.dl # 0 THEN st
    ELSE bind(st, b)

----------------------------------------------------------------------------
(* package group: service.Validate *)

\* scope.Find as service.Validate calls it, with one result: the map lookup
\* scopes[name] returned as an interface value.  The interface always holds
\* the type *scope, with a nil pointer when the name is not in the map.
findInterface(st, rawName) ==
    LET name == normalize(rawName)
    IN [typed |-> TRUE, p |-> IF name \in DOMAIN st.sc THEN st.sc[name] ELSE 0]

\* s != nil for an interface value
notNilInterface(x) == x.typed

addErr(st, kind, text) == [st EXCEPT !.errs = Append(@, [kind |-> kind, text |-> text])]

\* one iteration of the loop of Validate, for the token ol
validateToken(st, ol) ==
    LET osl == Split(ol, ":")
    IN CASE Len(osl) = 1 ->
              LET r == FromLevel(Trim(ol))
              IN IF ~r.ok THEN addErr(st, "level", ol)
                 ELSE SetAllScopes(st, r.lvl)
         [] Len(osl) = 2 ->
              LET r == FromLevel(Trim(osl[2]))
                  s == findInterface(st, osl[1])
              IN IF ~r.ok THEN addErr(st, "level", ol)
                 ELSE IF notNilInterface(s)
                 THEN (IF s.p = 0 THEN Panic(st, "nil pointer dereference")
                       ELSE scSetLevel(st, s.p, r.lvl))
                 ELSE addErr(st, "scope", osl[1])
         [] OTHER -> addErr(st, "pair", ol)

RECURSIVE validateLoop(_, _)
validateLoop(st, tokens) ==
    IF tokens = <<>> \/ st.pn # "" THEN st
    ELSE validateLoop(validateToken(st, Head(tokens)), Tail(tokens))

\* service.Validate with s.outputLevels = outputLevels; the error returned
\* is nil iff errs is empty
Validate(st, outputLevels) ==
    validateLoop(st, Split(ToLower(outputLevels), ","))

----------------------------------------------------------------------------
(* package level: the wrapper that adds a level to a telemetry.Logger *)

Slice(kvs) == [t |-> "slice", v |-> kvs]

DebugLevel == <<Str(<<"l", "e", "v", "e", "l">>), Str(sDebug)>>
InfoLevel == <<Str(<<"l", "e", "v", "e", "l">>), Str(sInfo)>>
ErrorLevel == <<Str(<<"l", "e", "v", "e", "l">>), Str(sError)>>

\* &wrapper{logger: l, lvl: &lvl}
newWrapper(st, l, c) ==
    [st EXCEPT !.wr = Append(@, [logger |-> l, lvl |-> c]),
               !.ret = Ref("wrapper", Len(st.wr) + 1)]

\* level.Wrap; a function Logger has no SetLevel(level.Value), so it is wrapped
Wrap(st, l) ==
    newWrapper([st EXCEPT !.ce = Append(@, LevelDebug)], l, Len(st.ce) + 1)

\* wrapper.Debug
wrapperDebug(st, w, msg, kv) ==
    IF st.ce[st.wr[w].lvl] >= LevelDebug
    THEN fnDebug(st, st.wr[w].logger, msg, DebugLevel \o kv) ELSE st

\* wrapper.Info
wrapperInfo(st, w, msg, kv) ==
    IF st.ce[st.wr[w].lvl] >= LevelInfo
    THEN fnInfo(st, st.wr[w].logger, msg, InfoLevel \o kv) ELSE st

\* wrapper.Error
wrapperError(st, w, msg, err, kv) ==
    IF st.ce[st.wr[w].lvl] >= LevelError
    THEN fnError(st, st.wr[w].logger, msg, err, ErrorLevel \o kv) ELSE st

\* wrapper.With
wrapperWith(st, w, kv) ==
    LET a == fnWith(st, st.wr[w].logger, kv)
    IN newWrapper(a, a.ret.i, st.wr[w].lvl)

\* wrapper.Context
wrapperContext(st, w, ctx) ==
    LET a == fnContext(st, st.wr[w].logger, ctx)
    IN newWrapper(a, a.ret.i, st.wr[w].lvl)

\* wrapper.Metric
wrapperMetric(st, w, m) ==
    LET a == fnMetric(st, st.wr[w].logger, m)
    IN newWrapper(a, a.ret.i, st.wr[w].lvl)

\* wrapper.New: a level cell of its own, holding the current level
wrapperNew(st, w) ==
    LET a == fnContext(st, st.wr[w].logger, Background)
        b == [a EXCEPT !.ce = Append(@, st.ce[st.wr[w].lvl])]
    IN newWrapper(b, a.ret.i, Len(st.ce) + 1)

\* the if/else chain of wrapper.SetLevel
wrapperClamp(lvl) ==
    IF lvl < LevelInfo THEN LevelError
    ELSE IF lvl < LevelDebug THEN LevelInfo
    ELSE LevelDebug

\* wrapper.SetLevel
wrapperSetLevel(st, w, lvl) == [st EXCEPT !.ce[st.wr[w].lvl] = wrapperClamp(lvl)]

\* wrapper.Level
wrapperLevel(st, w) == st.ce[st.wr[w].lvl]

----------------------------------------------------------------------------
(* package scope as it was on top of package level (scope/scope.go) *)

\* scope.Debug: the pairs are handed on as one value, not spread
levelScopeDebug(st, p, msg, kv) ==
    panicCheck(IF st.sh[p].logger # 0
               THEN wrapperDebug(st, st.sh[p].logger, msg, <<Slice(kv)>>) ELSE st,
               "calling Debug on uninitialized logger")

\* scope.Info: forwards to the Debug method of its logger
levelScopeInfo(st, p, msg, kv) ==
    panicCheck(IF st.sh[p].logger # 0
               THEN wrapperDebug(st, st.sh[p].logger, msg, <<Slice(kv)>>) ELSE st,
               "calling Info on uninitialized logger")

\* scope.Error
levelScopeError(st, p, msg, err, kv) ==
    panicCheck(IF st.sh[p].logger # 0
               THEN wrapperError(st, st.sh[p].logger, msg, err, kv) ELSE st,
               "calling Error on uninitialized logger")

\* scope.SetLevel, for a receiver that may be a nil *scope
levelScopeSetLevel(st, p, lvl) ==
    IF p = 0 THEN Panic(st, "nil pointer dereference")
    ELSE IF st.sh[p].logger # 0 THEN wrapperSetLevel(st, st.sh[p].logger, lvl)
    ELSE st

\* scope.Level
levelScopeLevel(st, p) ==
    IF st.sh[p].logger # 0 THEN wrapperLevel(st, st.sh[p].logger) ELSE LevelNone

\* Register
levelRegister(st, rawName, description) ==
    IF ContainsAny(rawName, Separators) THEN [st EXCEPT !.ret = NilRef]
    ELSE
    LET name == normalize(rawName)
        n == Len(st.sh) + 1
        sc == [logger |-> 0, kvs |-> <<>>, ctx |-> NilCtx, metric |-> NoMetric,
               name |-> name, description |-> description, level |-> 0]
        st1 == IF name \in DOMAIN st.sc THEN st
               ELSE LET a == IF st.dl # 0 THEN wrapperNew(st, st.dl) ELSE st
                        l == IF st.dl # 0 THEN a.ret.i ELSE 0
                    IN [a EXCEPT !.sh = Append(@, [sc EXCEPT !.logger = l]),
                                 !.sc = Put(@, name, n)]
        p == st1.sc[name]
        st2 == IF st1.dl = 0 THEN appendUninitialized(st1, name, p) ELSE st1
    IN [st2 EXCEPT !.ret = Ref("levelscope", p)]

\* SetDefaultLevel
levelSetDefaultLevel(st, lvl) ==
    IF st.dl # 0 THEN wrapperSetLevel(st, st.dl, lvl) ELSE st

\* the body of the inner loop of UseLogger
levelReplayOne(st, l, p) ==
    LET sc == st.sh[p]
        a == IF ~sc.ctx.isNil THEN wrapperContext(st, l, sc.ctx)
             ELSE [st EXCEPT !.ret = Ref("wrapper", l)]
        b == IF sc.metric # NoMetric THEN wrapperMetric(a, a.ret.i, sc.metric) ELSE a
        c == IF Len(sc.kvs) > 0 THEN wrapperWith(b, b.ret.i, sc.kvs) ELSE b
    IN [c EXCEPT !.sh[p] = [@ EXCEPT !.logger = c.ret.i, !.kvs = <<>>,
                                     !.ctx = NilCtx, !.metric = NoMetric]]

RECURSIVE levelReplayList(_, _, _)
levelReplayList(st, l, list) ==
    IF list = <<>> THEN st
    ELSE LET a == levelReplayOne(st, l, Head(list))
         IN levelReplayList(a, a.ret.i, Tail(list))

RECURSIVE levelReplayAll(_, _)
levelReplayAll(st, names) ==
    IF names = {} THEN st
    ELSE LET n == CHOOSE x \in names : TRUE
             c == wrapperNew(st, st.dl)
         IN levelReplayAll(levelReplayList(c, c.ret.i, st.un.m[n]), names \ {n})

\* UseLogger; b is the function Logger passed in (0 = nil)
levelUseLogger(st, b) ==
    IF b = 0 THEN st
    ELSE IF st.dl # 0 THEN st
    ELSE LET c == Wrap(st, b)
             a == [c EXCEPT !.dl = c.ret.i]
             r == levelReplayAll(a, DOMAIN a.un.m)
         IN [r EXCEPT !.un = [isNil |-> TRUE, m |-> EmptyMap], !.ret = NilRef]

\* one iteration of the loop of the Validate that goes with this package
levelValidateToken(st, ol) ==
    LET osl == Split(ol, ":")
    IN CASE Len(osl) = 1 ->
              LET r == FromLevel(Trim(ol))
              IN IF ~r.ok THEN addErr(st, "level", ol)
                 ELSE levelSetDefaultLevel(st, r.lvl)
         [] Len(osl) = 2 ->
              LET r == FromLevel(Trim(osl[2]))
                  s == findInterface(st, osl[1])
              IN IF ~r.ok THEN addErr(st, "level", ol)
                 ELSE IF notNilInterface(s) THEN levelScopeSetLevel(st, s.p, r.lvl)
                 ELSE addErr(st, "scope", osl[1])
         [] OTHER -> addErr(st, "pair", ol)

RECURSIVE levelValidateLoop(_, _)
levelValidateLoop(st, tokens) ==
    IF tokens = <<>> \/ st.pn # "" THEN st
    ELSE levelValidateLoop(levelValidateToken(st, Head(tokens)), Tail(tokens))

levelValidate(st, outputLevels) ==
    levelValidateLoop(st, Split(ToLower(outputLevels), ","))

----------------------------------------------------------------------------
(* Inputs *)

svc == <<"s", "v", "c">>
kK == Str(<<"k">>)
kV == Str(<<"v">>)

RawNames == {svc, <<" ", "S", "V", "C">>, <<"b">>, <<>>, <<"b", ".", "c">>}
Registrations ==
    {<<svc, "d1">>, <<<<" ", "S", "V", "C">>, "d2">>, <<<<"b">>, "d1">>,
     <<<<>>, "d1">>}
ConfigRegistrations ==
    {<<svc, "d1">>, <<<<"b">>, "d1">>, <<<<"b", ".", "c">>, "d1">>}
WithArgs == {<<kK, kV>>, <<IntVal(<<"1">>), Str(<<>>), Str(<<"m">>)>>}
Contexts == {KeyValuesToContext(Background, <<Str(<<"c">>), Str(<<"x">>)>>)}
Metrics == {"m1"}
LevelInputs == {3, 11}
LogInputs == {<<"ok", <<>>>>}

LevelRegistrations == {<<svc, "d1">>, <<<<"b">>, "d1">>}
WrapperLevelInputs == {-1, 7, 11}
LevelCommands ==
    { svc \o <<":">> \o sInfo, <<"b", ":">> \o sDebug, sError }

Commands ==
    { svc \o <<":">> \o sInfo,
      <<"b", "o", "g", "u", "s", ":", "l", "e", "v", "e", "l">>,
      <<"b", ":", "D", "E", "B", "U", "G", ",", "b", "a", "d", ",">>
          \o svc \o <<":", "b", ":">> \o sInfo \o <<",">> \o sError }

----------------------------------------------------------------------------
(* The caller: the handles it holds and the calls it makes *)

\* a handle records the object, the handle it was obtained from (0 = none), the
\* call that returned it and the argument of that call
addHandle(hs, ref, parent, via, arg) ==
    IF ref.k = "nil" \/ \E i \in 1..Len(hs) : hs[i].ref = ref THEN hs
    ELSE Append(hs, [ref |-> ref, parent |-> parent, via |-> via, arg |-> arg])

Hs == 1..Len(handles)
IsScope(h) == handles[h].ref.k = "scope"
IsLogger(h) == handles[h].ref.k = "logger"
Obj(h) == handles[h].ref.i

Kind(h) == handles[h].ref.k

\* Level() of the logger r in the state st
refLevel(st, r) ==
    CASE r.k = "logger" -> fnLevel(st, r.i)
      [] r.k = "scope" -> scLevel(st, r.i)
      [] r.k = "wrapper" -> wrapperLevel(st, r.i)
      [] r.k = "levelscope" -> levelScopeLevel(st, r.i)

\* Level() of a handle in the state st
hLevel(st, h) == refLevel(st, handles[h].ref)

Running == panicked = ""

\* the goroutines that call into the package at the same time
Threads == {1, 2}

\* a goroutine that is in no call
Idle == [op |-> "", pc |-> "idle", name |-> <<>>, desc |-> "", h |-> 0,
         kv |-> <<>>, p |-> 0, old |-> <<>>, todo |-> {}, call |-> ""]

\* the bounds on what the caller builds: the loggers it holds, the entries
\* pending under one name, the log calls that left a trace
Bounded(st) ==
    /\ \A n \in DOMAIN st.un.m : Len(st.un.m[n]) <= MaxPending
    /\ Len(st.out) <= MaxLogs
    /\ \A m \in Metrics : st.cnt[m] <= MaxLogs

\* a call that returns a logger: the caller keeps it; a call that panics
\* returns nothing
Returns(st, parent, via, arg) ==
    /\ Bounded(st)
    /\ Commit(st)
    /\ handles' = IF st.pn # "" THEN handles
                  ELSE addHandle(handles, st.ret, parent, via, arg)
    /\ Len(handles') <= MaxHandles
    /\ UNCHANGED <<PanicOnUninitialized, reqCtx, lock, threads, sinkVars, ctxVars>>

\* a call that returns no logger
Done(st) ==
    /\ Bounded(st)
    /\ Commit(st)
    /\ UNCHANGED <<handles, PanicOnUninitialized, reqCtx, lock, threads, sinkVars,
                   ctxVars>>

\* the call made on the handle h
hWith(st, h, kv) ==
    CASE Kind(h) = "logger" -> fnWith(st, Obj(h), kv)
      [] Kind(h) = "scope" -> scWith(st, Obj(h), kv)
      [] Kind(h) = "wrapper" -> wrapperWith(st, Obj(h), kv)
hContext(st, h, ctx) ==
    CASE Kind(h) = "logger" -> fnContext(st, Obj(h), ctx)
      [] Kind(h) = "scope" -> scContext(st, Obj(h), ctx)
      [] Kind(h) = "wrapper" -> wrapperContext(st, Obj(h), ctx)
hMetric(st, h, m) ==
    CASE Kind(h) = "logger" -> fnMetric(st, Obj(h), m)
      [] Kind(h) = "scope" -> scMetric(st, Obj(h), m)
      [] Kind(h) = "wrapper" -> wrapperMetric(st, Obj(h), m)
hClone(st, h) ==
    IF IsScope(h) THEN scClone(st, Obj(h)) ELSE fnClone(st, Obj(h))
hSetLevel(st, h, lvl) ==
    CASE Kind(h) = "logger" -> fnSetLevel(st, Obj(h), lvl)
      [] Kind(h) = "scope" -> scSetLevel(st, Obj(h), lvl)
      [] Kind(h) = "wrapper" -> wrapperSetLevel(st, Obj(h), lvl)
      [] Kind(h) = "levelscope" -> levelScopeSetLevel(st, Obj(h), lvl)
hDebug(st, h, msg, kv) ==
    LET a == [st EXCEPT !.who = h]
    IN CASE Kind(h) = "logger" -> fnDebug(a, Obj(h), msg, kv)
         [] Kind(h) = "scope" -> scDebug(a, Obj(h), msg, kv)
         [] Kind(h) = "wrapper" -> wrapperDebug(a, Obj(h), msg, kv)
         [] Kind(h) = "levelscope" -> levelScopeDebug(a, Obj(h), msg, kv)
hInfo(st, h, msg, kv) ==
    LET a == [st EXCEPT !.who = h]
    IN CASE Kind(h) = "logger" -> fnInfo(a, Obj(h), msg, kv)
         [] Kind(h) = "scope" -> scInfo(a, Obj(h), msg, kv)
         [] Kind(h) = "wrapper" -> wrapperInfo(a, Obj(h), msg, kv)
         [] Kind(h) = "levelscope" -> levelScopeInfo(a, Obj(h), msg, kv)
hError(st, h, msg, kv) ==
    LET a == [st EXCEPT !.who = h]
    IN CASE Kind(h) = "logger" -> fnError(a, Obj(h), msg, "error", kv)
         [] Kind(h) = "scope" -> scError(a, Obj(h), msg, "error", kv)
         [] Kind(h) = "wrapper" -> wrapperError(a, Obj(h), msg, "error", kv)
         [] Kind(h) = "levelscope" -> levelScopeError(a, Obj(h), msg, "error", kv)
\* UseLogger(nil) for h = 0, UseLogger of the function Logger h otherwise
hUseLogger(st, h) == UseLogger(st, IF h = 0 THEN 0 ELSE Obj(h))

CallRegister(name, description) ==
    /\ Running
    /\ Returns(Register(S, name, description), 0, "Register", name)

CallFind(name) ==
    /\ Running
    /\ Done(Find(S, name))

CallWith(h, kv) ==
    /\ Running
    /\ Returns(hWith(S, h, kv), h, "With", kv)

CallContext(h, ctx) ==
    /\ Running
    /\ Returns(hContext(S, h, ctx), h, "Context", ctx)

CallMetric(h, m) ==
    /\ Running
    /\ Returns(hMetric(S, h, m), h, "Metric", m)

CallClone(h) ==
    /\ Running
    /\ Returns(hClone(S, h), h, "Clone", <<>>)

CallSetLevel(h, lvl) ==
    /\ Running
    /\ Done(hSetLevel(S, h, lvl))

CallDebug(h, msg, kv) ==
    /\ Running
    /\ Done(hDebug(S, h, msg, kv))

CallInfo(h, msg, kv) ==
    /\ Running
    /\ Done(hInfo(S, h, msg, kv))

CallError(h, msg, kv) ==
    /\ Running
    /\ Done(hError(S, h, msg, kv))

CallUseLogger(h) ==
    /\ Running
    /\ IF h = 0 THEN TRUE ELSE IsLogger(h)
    /\ Done(hUseLogger(S, h))

CallSetAllScopes(lvl) ==
    /\ Running
    /\ Done(SetAllScopes(S, lvl))

CallSetDefaultLevel(lvl) ==
    /\ Running
    /\ Done(SetDefaultLevel(S, lvl))

CallValidate(cmd) ==
    /\ Running
    /\ Done(Validate(S, cmd))

\* The caller starts with one function Logger, made by NewLogger with an
\* Emit function that captures the records, and an empty registry.
Start ==
    NewLogger([lg |-> <<>>, ce |-> <<>>, sh |-> <<>>, wr |-> <<>>,
               sc |-> EmptyMap,
               un |-> [isNil |-> FALSE, m |-> EmptyMap], dl |-> 0, out |-> <<>>,
               cnt |-> [m \in Metrics |-> 0], pn |-> "", ret |-> NilRef,
               ok |-> FALSE, errs |-> <<>>, who |-> 0], TRUE)

InitWith(panics) ==
    /\ loggers = Start.lg
    /\ cells = Start.ce
    /\ scs = Start.sh
    /\ wrappers = Start.wr
    /\ scopes = Start.sc
    /\ uninitialized = Start.un
    /\ defaultLogger = Start.dl
    /\ PanicOnUninitialized \in panics
    /\ out = Start.out
    /\ count = Start.cnt
    /\ handles = addHandle(<<>>, Start.ret, 0, "NewLogger", <<>>)
    /\ reqCtx = Background
    /\ lock = 0
    /\ threads = [t \in Threads |-> Idle]
    /\ metricSink = 0
    /\ callbacks = <<>>
    /\ invoked = <<>>
    /\ arrays = <<>>
    /\ ctxs = <<<<>>>>
    /\ panicked = ""

Init == InitWith({FALSE})

Decorate ==
    \/ \E h \in Hs, kv \in WithArgs : CallWith(h, kv)
    \/ \E h \in Hs, c \in Contexts : CallContext(h, c)
    \/ \E h \in Hs, m \in Metrics : CallMetric(h, m)
    \/ \E h \in Hs : CallClone(h)

Log ==
    \/ \E h \in Hs, a \in LogInputs : CallDebug(h, a[1], a[2])
    \/ \E h \in Hs, a \in LogInputs : CallInfo(h, a[1], a[2])
    \/ \E h \in Hs, a \in LogInputs : CallError(h, a[1], a[2])

(* The registry and the composition of loggers *)
Next ==
    \/ \E r \in Registrations : CallRegister(r[1], r[2])
    \/ Decorate
    \/ \E h \in Hs, l \in LevelInputs : CallSetLevel(h, l)
    \/ \E h \in {0} \cup Hs : CallUseLogger(h)
    \/ Log

Spec == Init /\ [][Next]_vars

(* The registry under the level configuration of package group *)
InitConfig == InitWith(BOOLEAN)

NextConfig ==
    \/ \E r \in ConfigRegistrations : CallRegister(r[1], r[2])
    \/ \E h \in {0} \cup Hs : CallUseLogger(h)
    \/ \E n \in RawNames : CallFind(n)
    \/ \E l \in LevelInputs : CallSetAllScopes(l)
    \/ \E l \in LevelInputs : CallSetDefaultLevel(l)
    \/ \E c \in Commands : CallValidate(c)
    \/ Log

SpecConfig == InitConfig /\ [][NextConfig]_vars

----------------------------------------------------------------------------
(* The registry of scope/scope.go on top of the level wrapper *)

\* the wrappers the caller holds
Ws == {h \in Hs : Kind(h) = "wrapper"}

LvRegister(name, description) ==
    /\ Running
    /\ Returns(levelRegister(S, name, description), 0, "Register", name)

LvWrap(h) ==
    /\ Running
    /\ IsLogger(h)
    /\ Returns(Wrap(S, Obj(h)), h, "Wrap", <<>>)

LvUseLogger(h) ==
    /\ Running
    /\ IF h = 0 THEN TRUE ELSE IsLogger(h)
    /\ Done(levelUseLogger(S, IF h = 0 THEN 0 ELSE Obj(h)))

LvSetDefaultLevel(lvl) ==
    /\ Running
    /\ Done(levelSetDefaultLevel(S, lvl))

LvValidate(cmd) ==
    /\ Running
    /\ Done(levelValidate(S, cmd))

NextLevel ==
    \/ \E r \in LevelRegistrations : LvRegister(r[1], r[2])
    \/ \E h \in Hs : LvWrap(h)
    \/ \E h \in {0} \cup Hs : LvUseLogger(h)
    \/ \E h \in Ws, kv \in WithArgs : CallWith(h, kv)
    \/ \E h \in Ws, c \in Contexts : CallContext(h, c)
    \/ \E h \in Ws, m \in Metrics : CallMetric(h, m)
    \/ \E h \in Hs, l \in WrapperLevelInputs : CallSetLevel(h, l)
    \/ \E l \in WrapperLevelInputs : LvSetDefaultLevel(l)
    \/ Log
    \/ \E c \in LevelCommands : LvValidate(c)

SpecLevel == Init /\ [][NextLevel]_vars

----------------------------------------------------------------------------
(* The key-values a request context carries *)

\* the pairs the caller stores in its context
CtxPairs ==
    {<<Str(<<"k", "1">>), Str(<<"v", "1">>)>>,
     <<Str(<<"k", "1">>), Str(<<"v", "2">>)>>, <<Str(<<"a">>)>>}

\* a step of the caller that changes only the context it carries
Carries(c) ==
    /\ Running
    /\ Len(c.layers) <= MaxLayers
    /\ reqCtx' = c
    /\ UNCHANGED <<loggers, cells, scs, wrappers, scopes, uninitialized,
                   defaultLogger, PanicOnUninitialized, out, count, handles,
                   lock, threads, sinkVars, ctxVars, panicked>>

\* ctx = KeyValuesToContext(ctx, ps...)
CallKeyValuesToContext(ps) == Carries(KeyValuesToContext(reqCtx, ps))

\* ctx = RemoveKeyValuesFromContext(ctx)
CallRemoveKeyValuesFromContext == Carries(RemoveKeyValuesFromContext(reqCtx))

\* the caller stores and removes pairs, attaches the context to the logger
\* NewLogger gave it, and logs
NextContext ==
    \/ \E ps \in CtxPairs : CallKeyValuesToContext(ps)
    \/ CallRemoveKeyValuesFromContext
    \/ CallContext(1, reqCtx)
    \/ Log

SpecContext == Init /\ [][NextContext]_vars

----------------------------------------------------------------------------
(* The key-values of contexts with the memory behind them.  The value a    *)
(* context stores under ctxKVP is a slice: an array, a length, and the     *)
(* capacity that is the length of the array.  A context is the chain of    *)
(* the values stored under ctxKVP, newest last; context.Background() is    *)
(* the empty chain.                                                        *)

\* the nil slice
NilSlice == [arr |-> 0, len |-> 0]

\* the arrays, and the context a call returns
M == [ar |-> arrays, ret |-> <<>>]

\* cap(s)
capOf(ar, s) == IF s.arr = 0 THEN 0 ELSE Len(ar[s.arr])

\* the elements s[0:len(s)]
elems(ar, s) == IF s.arr = 0 THEN <<>> ELSE SubSeq(ar[s.arr], 1, s.len)

\* the capacity append gives the array it allocates when the old one is too
\* small (runtime.growslice for small slices of interface{}): twice the old
\* capacity, or the length needed when that is more
growslice(oldCap, needed) == IF needed > 2 * oldCap THEN needed ELSE 2 * oldCap

\* append(s, vals...): within the capacity the values are written into the
\* array of s behind its length; beyond it a new array receives the elements
\* of s and the values
appendSlice(ar, s, vals) ==
    LET need == s.len + Len(vals)
    IN IF need <= capOf(ar, s)
       THEN [ar |-> [ar EXCEPT ![s.arr] =
                        [i \in 1..Len(@) |->
                            IF i > s.len /\ i <= need THEN vals[i - s.len]
                            ELSE @[i]]],
             s |-> [arr |-> s.arr, len |-> need]]
       ELSE [ar |-> Append(ar,
                        [i \in 1..growslice(capOf(ar, s), need) |->
                            IF i <= s.len THEN ar[s.arr][i]
                            ELSE IF i <= need THEN vals[i - s.len]
                            ELSE NilVal]),
             s |-> [arr |-> Len(ar) + 1, len |-> need]]

\* keyValuePairs, _ = ctx.Value(ctxKVP).([]interface{}): the slice itself
sliceFromContext(ctx) ==
    IF ctx = <<>> \/ ~ctx[Len(ctx)].isList THEN NilSlice ELSE ctx[Len(ctx)].s

\* KeyValuesFromContext: the elements of the slice the context stores
KeyValuesFromContextMem(ar, ctx) == elems(ar, sliceFromContext(ctx))

\* KeyValuesToContext: args := KeyValuesFromContext(ctx);
\* args = append(args, keyValuePairs...); context.WithValue(ctx, ctxKVP, args)
KeyValuesToContextMem(m, ctx, kvs) ==
    IF Len(kvs) = 0 THEN [m EXCEPT !.ret = ctx]
    ELSE LET a == appendSlice(m.ar, sliceFromContext(ctx), padMissing(kvs))
         IN [ar |-> a.ar, ret |-> Append(ctx, [isList |-> TRUE, s |-> a.s])]

\* RemoveKeyValuesFromContext: context.WithValue(ctx, ctxKVP, nil)
RemoveKeyValuesFromContextMem(m, ctx) ==
    [m EXCEPT !.ret = Append(ctx, [isList |-> FALSE, s |-> NilSlice])]

\* the values the caller stores
StorePairs == CtxPairs \cup {<<kK, kV, Str(<<"k", "1">>), Str(<<"v", "1">>)>>}

\* the caller keeps the context a call returned next to those it has
Keeps(m) ==
    /\ Running
    /\ Len(ctxs) < MaxContexts
    /\ arrays' = m.ar
    /\ ctxs' = Append(ctxs, m.ret)
    /\ UNCHANGED <<loggers, cells, scs, wrappers, scopes, uninitialized,
                   defaultLogger, PanicOnUninitialized, out, count, handles,
                   reqCtx, lock, threads, sinkVars, panicked>>

\* c := KeyValuesToContext(ctxs[i], ps...)
StoreIn(i, ps) == Keeps(KeyValuesToContextMem(M, ctxs[i], ps))

\* c := RemoveKeyValuesFromContext(ctxs[i])
RemoveFrom(i) == Keeps(RemoveKeyValuesFromContextMem(M, ctxs[i]))

NextSlices ==
    \/ \E i \in 1..Len(ctxs), ps \in StorePairs : StoreIn(i, ps)
    \/ \E i \in 1..Len(ctxs) : RemoveFrom(i)

SpecSlices == Init /\ [][NextSlices]_vars

----------------------------------------------------------------------------
(* Goroutines calling Register, UseLogger and With at the same time.  A    *)
(* step is what a goroutine does between two points at which another one   *)
(* can run: taking or releasing the lock, a call into the backend (call    *)
(* names the method while the goroutine is in it), a read or a write of a  *)
(* package variable.                                                       *)

\* a step of the goroutine t
Go(t, st, th, lk, hs) ==
    /\ Commit(st)
    /\ threads' = [threads EXCEPT ![t] = th]
    /\ lock' = lk
    /\ handles' = hs
    /\ UNCHANGED <<PanicOnUninitialized, reqCtx, sinkVars, ctxVars>>

\* the goroutine t is at the position pc of the call op
At(t, op, pc) == Running /\ threads[t].op = op /\ threads[t].pc = pc

InFlight == {t \in Threads : threads[t].pc # "idle"}

\* the bounds on what the goroutines build: loggers held and entries pending
\* under the name
Room(name) ==
    /\ Len(handles) + Cardinality(InFlight) < MaxHandles
    /\ (IF name \in DOMAIN uninitialized.m THEN Len(uninitialized.m[name]) ELSE 0)
         + Cardinality({u \in InFlight : /\ threads[u].op \in {"Register", "With"}
                                         /\ normalize(threads[u].name) = name})
         < MaxPending

\* the names registered and the pairs added while goroutines race
RaceRegistrations == {<<svc, "d1">>, <<<<"b">>, "d1">>, <<<<"b", ".", "c">>, "d1">>}
RaceWithArgs == {<<kK, kV>>}

\* Register is called: a name with a separator is refused at once
GoRegister(t, name, description) ==
    /\ At(t, "", "idle")
    /\ Room(normalize(name))
    /\ IF ContainsAny(name, Separators) THEN UNCHANGED vars
       ELSE Go(t, S, [Idle EXCEPT !.op = "Register", !.pc = "lock", !.name = name,
                                  !.desc = description], lock, handles)

\* UseLogger is called: a nil logger is refused at once
GoUseLogger(t, h) ==
    /\ At(t, "", "idle")
    /\ h # 0 => IsLogger(h)
    /\ IF h = 0 THEN UNCHANGED vars
       ELSE Go(t, S, [Idle EXCEPT !.op = "UseLogger", !.pc = "lock", !.h = h],
               lock, handles)

\* a Lock that does not wait for the lock to be free
LockAnyway(t) ==
    /\ Running
    /\ threads[t].pc = "lock"
    /\ Go(t, S, [threads[t] EXCEPT !.pc = "locked"], t, handles)

\* lock.Lock()
Lock(t) ==
    /\ Running
    /\ threads[t].pc = "lock"
    /\ lock = 0
    /\ Go(t, S, [threads[t] EXCEPT !.pc = "locked"], t, handles)

\* sc, ok := scopes[name]; a scope that is missing is made next, with a call
\* of defaultLogger.With when there is a default logger
RegisterLookup(t) ==
    /\ At(t, "Register", "locked")
    /\ LET missing == normalize(threads[t].name) \notin DOMAIN scopes
       IN Go(t, S, [threads[t] EXCEPT
                       !.pc = IF missing THEN "create" ELSE "pend",
                       !.call = IF missing /\ defaultLogger # 0 THEN "With" ELSE ""],
             lock, handles)

\* the body of if !ok { ... }
RegisterCreate(t) ==
    /\ At(t, "Register", "create")
    /\ Go(t, newScope(S, normalize(threads[t].name), threads[t].desc),
          [threads[t] EXCEPT !.pc = "pend", !.call = ""], lock, handles)

\* if defaultLogger == nil { uninitialized[name] = append(uninitialized[name], sc) }
RegisterPend(t) ==
    /\ At(t, "Register", "pend")
    /\ LET st == registered(S, normalize(threads[t].name))
       IN Go(t, st, [threads[t] EXCEPT !.pc = "unlock", !.p = st.ret.i], lock, handles)

\* if defaultLogger != nil { return }; otherwise logger.Clone() is called
UseCheck(t) ==
    /\ At(t, "UseLogger", "locked")
    /\ Go(t, S, [threads[t] EXCEPT
                    !.pc = IF defaultLogger # 0 THEN "unlock" ELSE "install",
                    !.call = IF defaultLogger # 0 THEN "" ELSE "Clone"],
          lock, handles)

\* defaultLogger = logger.Clone(); the range over uninitialized starts
UseInstall(t) ==
    /\ At(t, "UseLogger", "install")
    /\ LET c == fnClone(S, Obj(threads[t].h))
       IN Go(t, [c EXCEPT !.dl = c.ret.i],
             [threads[t] EXCEPT !.pc = "range", !.call = "",
                                !.todo = DOMAIN uninitialized.m], lock, handles)

\* for _, scopes := range uninitialized: the next name, in any order, and the
\* call of defaultLogger.Clone() for it; the end of the loop
UseRange(t) ==
    /\ At(t, "UseLogger", "range")
    /\ IF threads[t].todo = {}
       THEN Go(t, S, [threads[t] EXCEPT !.pc = "clear"], lock, handles)
       ELSE \E n \in threads[t].todo :
                Go(t, S, [threads[t] EXCEPT !.pc = "replay", !.name = n,
                                            !.call = "Clone"], lock, handles)

\* l := defaultLogger.Clone() and the inner loop over the scopes of the name
UseReplay(t) ==
    /\ At(t, "UseLogger", "replay")
    /\ LET n == threads[t].name
           c == fnClone(S, defaultLogger)
       IN Go(t, replayList(c, c.ret.i, uninitialized.m[n]),
             [threads[t] EXCEPT !.pc = "range", !.call = "", !.todo = @ \ {n}],
             lock, handles)

\* uninitialized = nil
UseClear(t) ==
    /\ At(t, "UseLogger", "clear")
    /\ Go(t, [S EXCEPT !.un = [isNil |-> TRUE, m |-> EmptyMap]],
          [threads[t] EXCEPT !.pc = "unlock"], lock, handles)

\* the deferred lock.Unlock() and the return; Register returns its scope
Unlock(t) ==
    /\ Running
    /\ threads[t].pc = "unlock"
    /\ Go(t, S, Idle, 0,
          IF threads[t].op = "Register"
          THEN addHandle(handles, Ref("scope", threads[t].p), 0, "Register",
                         threads[t].name)
          ELSE handles)

\* With is called on the scope h: a bound scope hands the call to its logger;
\* an unbound one builds the new scope, which it has yet to put in the table
GoWith(t, h, kv) ==
    /\ At(t, "", "idle")
    /\ IsScope(h)
    /\ Room(scs[Obj(h)].name)
    /\ IF scs[Obj(h)].logger # 0
       THEN LET st == scWith(S, Obj(h), kv)
            IN Go(t, st, Idle, lock, addHandle(handles, st.ret, h, "With", kv))
       ELSE LET b == scWith(S, Obj(h), kv)
            IN Go(t, [b EXCEPT !.un = uninitialized, !.pn = panicked],
                  [Idle EXCEPT !.op = "With", !.pc = "load", !.h = h, !.kv = kv,
                               !.p = b.ret.i, !.name = scs[Obj(h)].name],
                  lock, handles)

\* the read of uninitialized[s.name]: the zero value for a missing key or a
\* nil map
WithLoad(t) ==
    /\ At(t, "With", "load")
    /\ LET n == threads[t].name
       IN Go(t, S, [threads[t] EXCEPT
                       !.pc = "store",
                       !.old = IF n \in DOMAIN uninitialized.m
                               THEN uninitialized.m[n] ELSE <<>>],
             lock, handles)

\* the goroutine is between a read and a write of the table, or in the range
\* over it
MidAccess(u) == threads[u].pc \in {"store", "range", "replay", "clear"}

\* uninitialized[s.name] = append(<what was read>, sc), and the return
WithStore(t) ==
    /\ At(t, "With", "store")
    /\ IF uninitialized.isNil
       THEN Go(t, Panic(S, "assignment to entry in nil map"), Idle, lock, handles)
       ELSE Go(t, [S EXCEPT !.un.m = Put(@, threads[t].name,
                                         Append(threads[t].old, threads[t].p))],
               Idle, lock,
               addHandle(handles, Ref("scope", threads[t].p), threads[t].h, "With",
                         threads[t].kv))

\* the write meets another goroutine's access to the map: the runtime may
\* detect it and end the process
WithFatal(t) ==
    /\ At(t, "With", "store")
    /\ \E u \in Threads \ {t} : MidAccess(u)
    /\ Go(t, Panic(S, "concurrent map writes"), Idle, lock, handles)

NextRace ==
    \/ \E t \in Threads, r \in RaceRegistrations : GoRegister(t, r[1], r[2])
    \/ \E t \in Threads, h \in {0} \cup Hs : GoUseLogger(t, h)
    \/ \E t \in Threads, h \in Hs, kv \in RaceWithArgs : GoWith(t, h, kv)
    \/ \E t \in Threads : Lock(t)
    \/ \E t \in Threads : RegisterLookup(t)
    \/ \E t \in Threads : RegisterCreate(t)
    \/ \E t \in Threads : RegisterPend(t)
    \/ \E t \in Threads : UseCheck(t)
    \/ \E t \in Threads : UseInstall(t)
    \/ \E t \in Threads : UseRange(t)
    \/ \E t \in Threads : UseReplay(t)
    \/ \E t \in Threads : UseClear(t)
    \/ \E t \in Threads : Unlock(t)
    \/ \E t \in Threads : WithLoad(t)
    \/ \E t \in Threads : WithStore(t)
    \/ \E t \in Threads : WithFatal(t)

SpecRace == Init /\ [][NextRace]_vars

----------------------------------------------------------------------------
(* The global metric sink *)

\* the three package variables as one value
G == [metricSink |-> metricSink, callbacks |-> callbacks, invoked |-> invoked]

\* callback(ms) for the test callbacks, which note the sink they are given
invoke(g, callback, ms) ==
    [g EXCEPT !.invoked = Append(@, [callback |-> callback, ms |-> ms])]

\* for _, callback := range callbacks { callback(ms) }
RECURSIVE invokeEach(_, _, _)
invokeEach(g, list, ms) ==
    IF list = <<>> THEN g
    ELSE invokeEach(invoke(g, Head(list), ms), Tail(list), ms)

\* a SetGlobalMetricSink that keeps the callbacks it has invoked
SetGlobalMetricSinkKeeping(g, ms) ==
    invokeEach([g EXCEPT !.metricSink = ms], g.callbacks, ms)

\* SetGlobalMetricSink
SetGlobalMetricSink(g, ms) ==
    [invokeEach([g EXCEPT !.metricSink = ms], g.callbacks, ms)
        EXCEPT !.callbacks = <<>>]

\* ToGlobalMetricSink
ToGlobalMetricSink(g, callback) ==
    IF g.metricSink # 0 THEN invoke(g, callback, g.metricSink)
    ELSE [g EXCEPT !.callbacks = Append(@, callback)]

\* the sinks passed to SetGlobalMetricSink (0 = nil) and the functions passed
\* to ToGlobalMetricSink
Sinks == {0, 1, 2}
Functions == {"f", "g"}

\* a call of one of the two functions; nothing else changes
Sets(g) ==
    /\ Running
    /\ metricSink' = g.metricSink
    /\ callbacks' = g.callbacks
    /\ invoked' = g.invoked
    /\ UNCHANGED <<loggers, cells, scs, wrappers, scopes, uninitialized,
                   defaultLogger, PanicOnUninitialized, out, count, handles,
                   reqCtx, lock, threads, ctxVars, panicked>>

CallSetGlobalMetricSink(ms) == Sets(SetGlobalMetricSink(G, ms))

\* the caller passes its n-th callback, n counting the callbacks it has passed
CallToGlobalMetricSink(fn) ==
    /\ Len(callbacks) + Len(invoked) < MaxCallbacks
    /\ Sets(ToGlobalMetricSink(G, [n |-> Len(callbacks) + Len(invoked) + 1,
                                   fn |-> fn]))

NextSink ==
    \/ \E ms \in Sinks : CallSetGlobalMetricSink(ms)
    \/ \E fn \in Functions : CallToGlobalMetricSink(fn)

SpecSink == Init /\ [][NextSink]_vars

----------------------------------------------------------------------------
(* Properties *)

\* the function Loggers the caller holds
Fns == {h \in Hs : IsLogger(h)}
\* the scopes the caller holds that have a logger, and those that have none
BoundScopes == {h \in Hs : IsScope(h) /\ scs[Obj(h)].logger # 0}
UnboundScopes == {h \in Hs : IsScope(h) /\ scs[Obj(h)].logger = 0}

\* a call of UseLogger that changes nothing
C1_NoOp ==
    /\ hUseLogger(S, 0) = S
    /\ defaultLogger # 0 => \A h \in Fns : hUseLogger(S, h) = S

\* a step that keeps the default logger: the same object with the same fields
C1_Stays ==
    defaultLogger # 0 =>
        /\ defaultLogger' = defaultLogger
        /\ loggers'[defaultLogger].emitFunc = loggers[defaultLogger].emitFunc
        /\ loggers'[defaultLogger].args = loggers[defaultLogger].args
        /\ loggers'[defaultLogger].ctx = loggers[defaultLogger].ctx
        /\ uninitialized' = uninitialized

\* C1: UseLogger is one-shot.  UseLogger(nil) in any state, and UseLogger of
\* any backend once a backend is installed, leave the default logger, the
\* scope table, every scope and its logger unchanged; and once a backend is
\* installed no step uninstalls it or installs another one.
C1_OneShot == [](C1_NoOp) /\ [][C1_Stays]_vars

\* a backend is installed, a scope registered before it is bound to it, and
\* the caller holds a second function Logger it could pass to UseLogger
C1_Witness ==
    /\ defaultLogger # 0
    /\ BoundScopes # {}
    /\ \E h \in Fns : h # 1 /\ loggers[Obj(h)].args # loggers[defaultLogger].args

\* the pair k, v is among the key-values kvs, a key at an odd place
HasPair(kvs, k, v) ==
    \E i \in 1..(Len(kvs) - 1) : i % 2 = 1 /\ kvs[i] = k /\ kvs[i + 1] = v

\* the handles d := s.With("k", "v") taken from a registered scope s with a
\* name that is not empty while no backend was installed, after a backend
\* has been installed
DecoratedBeforeBind ==
    {d \in BoundScopes : /\ handles[d].via = "With"
                         /\ handles[d].arg = <<kK, kV>>
                         /\ handles[handles[d].parent].via = "Register"
                         /\ scs[Obj(d)].name # <<>>}

\* C2: decorations made before bind are not lost.  For d := s.With("k", "v")
\* taken before UseLogger, a log call on d after UseLogger emits one record
\* and the record carries k = v among the logger's key-values.  Stated for
\* the Error method, which every level other than None lets through.
C2_DecorationEmitted ==
    \A d \in DecoratedBeforeBind :
        LET st == hError(S, d, "ok", <<>>)
        IN /\ Len(st.out) = Len(out) + 1
           /\ HasPair(st.out[Len(st.out)].FromLogger, kK, kV)

\* D was obtained from L by a chain of With, Context and Metric calls
RECURSIVE DerivedFrom(_, _)
DerivedFrom(d, l) ==
    /\ handles[d].via \in {"With", "Context", "Metric"}
    /\ handles[d].parent # 0
    /\ \/ handles[d].parent = l
       \/ DerivedFrom(handles[d].parent, l)

\* the integers passed to SetLevel in the properties
AnyLevel == {-1, 0, 1, 3, 5, 7, 10, 11}

\* C3: decoration preserves the shared level.  For every logger L and every D
\* derived from L by With, Context and Metric, SetLevel(x) on L and SetLevel(x)
\* on D both make L.Level() and D.Level() equal to the clamp of x.
C3_SharedLevel ==
    \A l \in Hs, d \in Hs :
        DerivedFrom(d, l) =>
            \A x \in AnyLevel, on \in {l, d} :
                LET st == hSetLevel(S, on, x)
                IN /\ hLevel(st, l) = clampLevel(x)
                   /\ hLevel(st, d) = clampLevel(x)

\* C4: Clone severs the sharing of the level.  For c obtained by L.Clone(),
\* no SetLevel on L changes c.Level() and no SetLevel on c changes L.Level();
\* and a Clone made now has the level its receiver has now.
C4_CloneSevers ==
    \A l \in Hs :
        /\ Kind(l) \in {"logger", "scope"} =>
               LET st == hClone(S, l) IN refLevel(st, st.ret) = hLevel(S, l)
        /\ \A c \in Hs :
               (handles[c].via = "Clone" /\ handles[c].parent = l) =>
                   \A x \in AnyLevel :
                       /\ hLevel(hSetLevel(S, l, x), c) = hLevel(S, c)
                       /\ hLevel(hSetLevel(S, c, x), l) = hLevel(S, l)

\* the names and descriptions passed to Register in the properties
AnyRegistration ==
    {<<n, d>> : n \in {svc, <<" ", "S", "V", "C">>, <<"S", "v", "c", "\t">>,
                       <<"b">>, <<"B", " ">>, <<>>, <<" ">>},
                d \in {"d1", "d2"}}

\* C5: Register is idempotent by normalized name.  Register of a name whose
\* normalized form is in the table returns the scope of the table (the same
\* object, hence the same level), adds no entry to the table, and changes no
\* scope (no description), no logger and no level.
C5_RegisterIdempotent ==
    \A r \in AnyRegistration :
        normalize(r[1]) \in DOMAIN scopes =>
            LET st == Register(S, r[1], r[2])
            IN /\ st.ret = Ref("scope", scopes[normalize(r[1])])
               /\ st.sc = scopes
               /\ st.sh = scs
               /\ st.ce = cells
               /\ st.lg = loggers
               /\ st.pn = panicked

\* a name has been registered twice: its scope is on the pending list twice
C5_Witness ==
    \E n \in DOMAIN uninitialized.m :
        /\ Len(uninitialized.m[n]) >= 2
        /\ uninitialized.m[n][1] = uninitialized.m[n][2]
        /\ scopes[n] = uninitialized.m[n][1]

\* the scopes the caller got from Register
Registered == {h \in Hs : IsScope(h) /\ handles[h].via = "Register"}

\* C6: scopes are independently leveled.  For the handles A and B of two
\* different registered names, SetLevel on A does not change B.Level().
C6_Independent ==
    \A a \in Registered, b \in Registered :
        a # b => \A x \in AnyLevel : hLevel(hSetLevel(S, a, x), b) = hLevel(S, b)

\* the handles that reach the backend: function Loggers and bound scopes
Bound == Fns \cup BoundScopes

\* the out that a call of level lvl with message msg on a logger of level v leaves
Gated(st, lvl, v, msg) ==
    IF lvl <= v
    THEN /\ Len(st.out) = Len(out) + 1
         /\ SubSeq(st.out, 1, Len(out)) = out
         /\ st.out[Len(st.out)].level = lvl
         /\ st.out[Len(st.out)].msg = msg
    ELSE st.out = out

\* C8: level gating.  On a bound logger of level V, Debug, Info and Error emit
\* exactly one record when their level (10, 5, 1) is at most V, and none
\* otherwise; at level None none of them emits.
C8_Gate ==
    \A h \in Bound :
        LET v == hLevel(S, h)
        IN /\ Gated(hDebug(S, h, "x", <<>>), LevelDebug, v, "x")
           /\ Gated(hInfo(S, h, "ok", <<>>), LevelInfo, v, "ok")
           /\ Gated(hError(S, h, "ok", <<>>), LevelError, v, "ok")
           /\ v = LevelNone =>
                  /\ hDebug(S, h, "x", <<>>).out = out
                  /\ hInfo(S, h, "ok", <<>>).out = out
                  /\ hError(S, h, "ok", <<>>).out = out

\* a record was emitted through a bound scope whose level is the level of the
\* call, and the caller holds a bound logger of level None
C8_Witness ==
    /\ \E i \in 1..Len(out) :
           /\ out[i].by \in BoundScopes
           /\ out[i].level = hLevel(S, out[i].by)
    /\ \E h \in Bound : hLevel(S, h) = LevelNone

\* the metric attached to the logger that the handle h logs through
Attached(h) ==
    CASE Kind(h) = "logger" -> loggers[Obj(h)].metric
      [] Kind(h) = "wrapper" -> loggers[wrappers[Obj(h)].logger].metric
      [] Kind(h) = "scope" -> loggers[scs[Obj(h)].logger].metric
      [] Kind(h) = "levelscope" -> loggers[wrappers[scs[Obj(h)].logger].logger].metric

\* the handles that log through a logger with a metric attached
Metered ==
    {h \in Hs : /\ Kind(h) \in {"scope", "levelscope"} => scs[Obj(h)].logger # 0
                /\ Attached(h) # NoMetric}

\* C7: metrics are not level-gated.  On a logger with a metric attached, every
\* Info call and every Error call records the metric exactly once, whatever
\* the level of the logger, and a Debug call does not record it.
C7_MetricAlways ==
    \A h \in Metered :
        LET m == Attached(h)
        IN /\ hInfo(S, h, "ok", <<>>).cnt = [count EXCEPT ![m] = @ + 1]
           /\ hError(S, h, "ok", <<>>).cnt = [count EXCEPT ![m] = @ + 1]
           /\ hDebug(S, h, "x", <<>>).cnt = count

\* C9: end to end.  With the scope "svc" registered and bound to a capturing
\* backend that has the level NewLogger gave it, after the configuration
\* "svc:info" is applied without error, Info("ok") on the scope emits exactly
\* one record, of level Info with the message "ok", and Debug("x") emits none.
C9_EndToEnd ==
    \A h \in Hs :
        ( /\ Kind(h) = "levelscope"
          /\ scs[Obj(h)].name = svc
          /\ scs[Obj(h)].logger # 0
          /\ fnLevel(S, 1) = LevelInfo ) =>
            LET a == levelValidate(S, svc \o <<":">> \o sInfo)
            IN /\ a.errs = <<>>
               /\ a.pn = ""
               /\ a.out = out
               /\ Gated(hInfo(a, h, "ok", <<>>), LevelInfo, LevelInfo, "ok")
               /\ Gated(hDebug(a, h, "x", <<>>), LevelDebug, LevelInfo, "x")

\* the token is valid: a level name, or a registered scope and a level name
validToken(tok) ==
    LET osl == Split(tok, ":")
    IN CASE Len(osl) = 1 -> FromLevel(Trim(tok)).ok
         [] Len(osl) = 2 -> /\ FromLevel(Trim(osl[2])).ok
                            /\ normalize(osl[1]) \in DOMAIN scopes
         [] OTHER -> FALSE

\* the commands passed to Validate in the properties
AnyCommand ==
    Commands \cup { svc \o <<":">> \o sDebug \o <<",">> \o sNone,
                    <<"b", ":">> \o sError,
                    <<"x", ",", "b", ":">> \o sInfo \o <<",">> \o svc \o <<":">> \o sError }

\* C10: the applier never short-circuits.  For every command, in a running
\* process, Validate returns normally with exactly one error for every token
\* that is not valid (unknown level name, unregistered scope, malformed
\* shape), leaves the levels that applying the valid tokens alone leaves,
\* and returns no error iff every token is valid.
C10_Accumulates ==
    \A c \in AnyCommand :
        Running =>
        LET toks == Split(ToLower(c), ",")
            good == SelectSeq(toks, validToken)
            st == Validate(S, c)
            ref == validateLoop(S, good)
        IN /\ st.pn = panicked
           /\ Len(st.errs) = Len(toks) - Len(good)
           /\ st.lg = ref.lg
           /\ st.ce = ref.ce


\* C11: level clamp.  On every logger with a SetLevel of its own (function
\* Logger, scope, level wrapper), SetLevel(x) followed by Level() returns None
\* for x < 1, Error for 1 <= x < 5, Info for 5 <= x < 10, Debug for x >= 10.
C11_Clamp ==
    \A h \in Hs :
        (Running /\ Kind(h) \in {"logger", "scope", "wrapper"}) =>
            \A x \in AnyLevel : hLevel(hSetLevel(S, h, x), h) = clampLevel(x)

\* names that contain one of the separators ':', ',' and '.'
SeparatorNames ==
    {<<"b", ".", "c">>, <<"a", ":", "b">>, <<",">>, svc \o <<".">>, <<" ", ":">>}

\* C12: Register of a name that contains ':', ',' or '.' returns nil and
\* leaves the scope table, the pending list, every scope, every logger and
\* every level as they were, and does not panic.
C12_RejectsSeparators ==
    \A n \in SeparatorNames, d \in {"d1", "d2"} :
        LET st == Register(S, n, d)
        IN /\ st.ret = NilRef
           /\ st.sc = scopes
           /\ st.un = uninitialized
           /\ st.sh = scs
           /\ st.lg = loggers
           /\ st.ce = cells
           /\ st.pn = panicked

\* "b" is registered and pending, and Register("b.c") is refused
C12_Witness ==
    /\ <<"b">> \in DOMAIN scopes
    /\ <<"b">> \in DOMAIN uninitialized.m
    /\ <<"b", ".", "c">> \notin DOMAIN scopes
    /\ Register(S, <<"b", ".", "c">>, "d1").ret = NilRef


\* the names passed to Find in the properties
FindNames ==
    RawNames \cup {<<"S", "v", "c", "\t">>, <<"B">>, <<"\n", "b", " ">>, <<" ">>,
                   <<"s", "v">>, <<"s", " ", "v", "c">>}

\* the Register calls that returned the scope the caller holds as h, with a
\* name of the normalized form of n
RegisteredAs(n) ==
    {h \in Registered : normalize(handles[h].arg) = normalize(n)}

\* C13: Find is a lookup by normalized name.  Find(n) reports found iff a
\* Register call succeeded with a name of the same lowercased, trimmed form,
\* and then returns the scope that call returned; in every case, found or
\* not, it changes nothing but its results.
C13_FindNormalized ==
    \A n \in FindNames :
        LET f == Find(S, n)
        IN /\ f.ok <=> RegisteredAs(n) # {}
           /\ f.ok => \A h \in RegisteredAs(n) : f.ret = handles[h].ref
           /\ ~f.ok => f.ret = NilRef
           /\ [f EXCEPT !.ret = S.ret, !.ok = S.ok] = S

\* "svc" is registered and found under another spelling, "b" is not registered
C13_Witness ==
    /\ RegisteredAs(svc) # {}
    /\ Find(S, <<" ", "S", "V", "C">>).ok
    /\ ~Find(S, <<"b">>).ok


\* the registrations of a name that is not in the table of the state st
NewRegistrations(st) ==
    {r \in AnyRegistration : normalize(r[1]) \notin DOMAIN st.sc}

\* C14: a scope first registered after a successful UseLogger is bound when
\* Register returns: it has a logger, a Debug call made once its level is
\* Debug reaches the backend, an Error call reaches the backend iff its level
\* lets Error through, nothing is put on the pending list, and its Level()
\* is the DefaultLevel() of the moment of the call.
C14_BoundAtOnce ==
    defaultLogger # 0 =>
        \A r \in NewRegistrations(S) :
            LET st == Register(S, r[1], r[2])
                p == st.ret.i
            IN /\ st.ret.k = "scope"
               /\ st.sh[p].logger # 0
               /\ st.un = uninitialized
               /\ st.pn = panicked
               /\ scLevel(st, p) = DefaultLevel(S)
               /\ Len(scError(st, p, "ok", "error", <<>>).out) =
                      Len(out) + (IF LevelError <= DefaultLevel(S) THEN 1 ELSE 0)
               /\ Len(scDebug(scSetLevel(st, p, LevelDebug), p, "x", <<>>).out) =
                      Len(out) + 1

\* the caller holds a scope registered after the backend was installed (it
\* has a logger and still has the level cell Register gave it), and a record
\* was emitted through it
C14_Witness ==
    /\ defaultLogger # 0
    /\ uninitialized.isNil
    /\ \E h \in Registered :
           /\ scs[Obj(h)].logger # 0
           /\ scs[Obj(h)].level # 0
           /\ \E i \in 1..Len(out) : out[i].by = h

\* C15: after bind, SetAllScopes(x) makes the Level() of every registered
\* scope and DefaultLevel() equal to the clamp of x, and a scope registered
\* next starts with that level.
C15_SetAllScopes ==
    defaultLogger # 0 =>
        \A x \in AnyLevel :
            LET st == SetAllScopes(S, x)
            IN /\ DefaultLevel(st) = clampLevel(x)
               /\ \A n \in DOMAIN st.sc : scLevel(st, st.sc[n]) = clampLevel(x)
               /\ \A r \in NewRegistrations(st) :
                      LET t == Register(st, r[1], r[2])
                      IN scLevel(t, t.ret.i) = clampLevel(x)

\* a backend is installed, two scopes are registered, and the two scopes and
\* the default all have the level Error
C15_Witness ==
    /\ defaultLogger # 0
    /\ Cardinality(DOMAIN scopes) >= 2
    /\ DefaultLevel(S) = LevelError
    /\ \A n \in DOMAIN scopes : scLevel(S, scopes[n]) = LevelError

\* C16: while no backend is bound DefaultLevel() is None, and SetAllScopes and
\* SetDefaultLevel change nothing: no level of a scope, no pending entry, and
\* so nothing of what a later UseLogger builds.
C16_NoOpBeforeBind ==
    defaultLogger = 0 =>
        /\ DefaultLevel(S) = LevelNone
        /\ \A x \in AnyLevel :
               /\ SetAllScopes(S, x) = S
               /\ SetDefaultLevel(S, x) = S
               /\ Running => UseLogger(SetAllScopes(S, x), 1) = UseLogger(S, 1)

\* no backend is bound, a scope of level Debug is registered and a decoration
\* of it is pending
C16_Witness ==
    /\ defaultLogger = 0
    /\ \E h \in Registered, d \in UnboundScopes :
           /\ hLevel(S, h) = LevelDebug
           /\ DerivedFrom(d, h)


\* the function Logger that the bound handle h logs through
LoggerOf(h) == IF IsLogger(h) THEN Obj(h) ELSE scs[Obj(h)].logger

\* the handle was returned by the function Logger of its parent
FromLoggerCall(h, calls) ==
    /\ IsLogger(h)
    /\ handles[h].parent # 0
    /\ handles[h].via \in calls

\* the key-values the calls of the caller gave the logger of h: those of the
\* logger it was derived from, then the pairs of its With call; for a scope
\* registered with the backend installed (it has kept the level cell Register
\* gave it) those of the backend, then the pair "scope", name
RECURSIVE ExpArgs(_)
ExpArgs(h) ==
    IF FromLoggerCall(h, {"With"})
    THEN ExpArgs(handles[h].parent) \o stringKeyPairs(padMissing(handles[h].arg))
    ELSE IF FromLoggerCall(h, {"Context", "Metric", "Clone"})
    THEN ExpArgs(handles[h].parent)
    ELSE IF handles[h].via = "Register" /\ scs[Obj(h)].level # 0
    THEN loggers[defaultLogger].args \o <<Str(Key), Str(scs[Obj(h)].name)>>
    ELSE loggers[LoggerOf(h)].args

\* the context the calls of the caller gave the logger of h: the one of its
\* Context call, or else the one of the logger it was derived from
RECURSIVE ExpCtx(_)
ExpCtx(h) ==
    IF FromLoggerCall(h, {"Context"}) THEN handles[h].arg
    ELSE IF FromLoggerCall(h, {"With", "Metric", "Clone"})
    THEN ExpCtx(handles[h].parent)
    ELSE loggers[LoggerOf(h)].ctx

\* the values passed to a log call in the properties
CallValues ==
    {<<>>, <<kK, kV>>, <<Str(<<"c">>), Str(<<"x">>)>>,
     <<IntVal(<<"1">>), Str(<<"1">>)>>, <<Str(<<"m">>)>>}

\* the record rec carries the three groups of the handle h and the values kv
Grouped(rec, h, kv) ==
    /\ rec.FromContext = KeyValuesFromContext(ExpCtx(h))
    /\ rec.FromLogger = ExpArgs(h)
    /\ rec.FromMethod = kv

\* the state a leaves out with exactly one more record, the one of h and kv
EmitsGrouped(a, h, kv) ==
    /\ Len(a.out) = Len(out) + 1
    /\ SubSeq(a.out, 1, Len(out)) = out
    /\ Grouped(a.out[Len(a.out)], h, kv)

\* C17: every emitted record carries three groups of values: the values of
\* the logger's context, then the logger's key-values (those of the logger it
\* was derived from followed by the pairs of each With, in the order of the
\* calls), then the values of the call as they were passed; no group holds a
\* value of another one.
C17_ThreeGroups ==
    \A h \in Bound, kv \in CallValues :
        LET st == hSetLevel(S, h, LevelDebug)
        IN /\ EmitsGrouped(hDebug(st, h, "x", kv), h, kv)
           /\ EmitsGrouped(hInfo(st, h, "ok", kv), h, kv)
           /\ EmitsGrouped(hError(st, h, "ok", kv), h, kv)

\* a record was emitted by a logger that got a context from Context and then
\* pairs from With
C17_Witness ==
    \E i \in 1..Len(out) :
        /\ out[i].by \in Fns
        /\ handles[out[i].by].via = "With"
        /\ FromLoggerCall(handles[out[i].by].parent, {"Context"})
        /\ out[i].FromContext # <<>>
        /\ out[i].FromLogger # <<>>


\* the key-values, the context, the metric and the level pointer that the
\* logger r has in the state st: those of its function Logger when it has
\* one, those of the scope itself otherwise
Carried(st, r) ==
    LET o == IF r.k = "logger" THEN st.lg[r.i]
             ELSE IF st.sh[r.i].logger # 0 THEN st.lg[st.sh[r.i].logger]
             ELSE [args |-> st.sh[r.i].kvs, ctx |-> st.sh[r.i].ctx,
                   metric |-> st.sh[r.i].metric, level |-> st.sh[r.i].level]
    IN [kvs |-> o.args, ctx |-> o.ctx, metric |-> o.metric, level |-> o.level]

\* the argument lists passed to With in the properties
AnyWithArgs ==
    WithArgs \cup {<<Str(<<"a">>)>>, <<kK, kV, Str(<<"a">>), IntVal(<<"2">>)>>,
                   <<IntVal(<<"1">>), kV>>}

\* the function Loggers and the scopes the caller holds
Composable == {h \in Hs : Kind(h) \in {"logger", "scope"}}

\* C18: With of one or more arguments returns a logger that carries the
\* receiver's key-values followed, in order, by the new pairs whose key is a
\* string ("(MISSING)" being the value of a last key without one), and the
\* receiver's level pointer, level, context and metric.
C18_WithAppends ==
    \A h \in Composable, kv \in AnyWithArgs :
        LET st == hWith(S, h, kv)
            was == Carried(S, handles[h].ref)
            got == Carried(st, st.ret)
        IN /\ got.kvs = was.kvs \o stringKeyPairs(padMissing(kv))
           /\ got.ctx = was.ctx
           /\ got.metric = was.metric
           /\ got.level = was.level
           /\ refLevel(st, st.ret) = hLevel(S, h)


\* the state st has the receiver h and everything that existed as they were:
\* what h carries, its level, every logger, scope and level cell, the scope
\* table, the records and the metrics
Kept(st, h) ==
    /\ Carried(st, handles[h].ref) = Carried(S, handles[h].ref)
    /\ hLevel(st, h) = hLevel(S, h)
    /\ SubSeq(st.lg, 1, Len(loggers)) = loggers
    /\ SubSeq(st.sh, 1, Len(scs)) = scs
    /\ st.ce = cells
    /\ st.sc = scopes
    /\ st.out = out
    /\ st.cnt = count

\* C19: With, Context, Metric and Clone do not change their receiver: its
\* key-values, context, metric and level are the same after the call as
\* before, as is every other logger; and With() without arguments returns the
\* receiver and creates nothing, no logger and no pending entry.
C19_ReceiverKept ==
    \A h \in Composable :
        /\ hWith(S, h, <<>>) = [S EXCEPT !.ret = handles[h].ref]
        /\ \A kv \in AnyWithArgs : Kept(hWith(S, h, kv), h)
        /\ \A c \in Contexts \cup {Background} : Kept(hContext(S, h, c), h)
        /\ \A m \in Metrics : Kept(hMetric(S, h, m), h)
        /\ Kept(hClone(S, h), h)

\* the caller holds a logger, a logger made from it by With that carries
\* more key-values, and a clone of it
C19_Witness ==
    \E h \in Hs, d \in Hs, c \in Hs :
        /\ handles[d].parent = h /\ handles[d].via = "With"
        /\ handles[c].parent = h /\ handles[c].via = "Clone"
        /\ Carried(S, handles[d].ref).kvs # Carried(S, handles[h].ref).kvs


\* the lists of values passed to KeyValuesToContext in the properties
AnyPairs ==
    CtxPairs \cup {<<>>, <<IntVal(<<"1">>), Str(<<"x">>), Str(<<"y">>)>>,
                   <<kK, kV, Str(<<"k", "1">>), Str(<<"v", "1">>)>>}

\* C20: for the context ctx the caller carries, KeyValuesFromContext of
\* RemoveKeyValuesFromContext(ctx) is the empty list, and KeyValuesToContext
\* on the cleared context stores exactly the values given ("(MISSING)" added
\* to an odd number of them), none of the values ctx held.
C20_RemoveClears ==
    LET cleared == RemoveKeyValuesFromContext(reqCtx)
    IN /\ KeyValuesFromContext(cleared) = <<>>
       /\ \A ps \in AnyPairs :
              KeyValuesFromContext(KeyValuesToContext(cleared, ps)) = padMissing(ps)

\* the context holds pairs stored after a removal of the pairs stored before
C20_Witness ==
    /\ KeyValuesFromContext(reqCtx) # <<>>
    /\ \E i \in 1..Len(reqCtx.layers) :
           /\ ~reqCtx.layers[i].isList
           /\ i > 1
           /\ reqCtx.layers[i - 1].isList


\* C21: for the context ctx the caller carries and values p1..pn,
\* KeyValuesFromContext(KeyValuesToContext(ctx, p1..pn)) is
\* KeyValuesFromContext(ctx) followed by p1..pn, and by "(MISSING)" when n is
\* odd; with n = 0 the context returned is ctx itself; and a context in which
\* no pairs were ever stored yields the empty list.
C21_RoundTrip ==
    /\ \A ps \in AnyPairs :
           LET c == KeyValuesToContext(reqCtx, ps)
           IN /\ KeyValuesFromContext(c) =
                     KeyValuesFromContext(reqCtx) \o ps
                         \o (IF Len(ps) % 2 = 1 THEN <<Missing>> ELSE <<>>)
              /\ ps = <<>> => c = reqCtx
    /\ (\A i \in 1..Len(reqCtx.layers) : ~reqCtx.layers[i].isList) =>
           KeyValuesFromContext(reqCtx) = <<>>

\* the context holds the pairs of two stores made one after the other, the
\* second one of a single value
C21_Witness ==
    /\ Len(reqCtx.layers) >= 2
    /\ reqCtx.layers[Len(reqCtx.layers)].isList
    /\ reqCtx.layers[Len(reqCtx.layers) - 1].isList
    /\ Len(KeyValuesFromContext(reqCtx)) >= 4
    /\ KeyValuesFromContext(reqCtx)[Len(KeyValuesFromContext(reqCtx))] = Missing


\* the strings passed to FromLevel in the properties
AnyLevelNames ==
    {sNone, sError, sInfo, sDebug, <<>>, <<" ">>,
     <<"i", "n", "v", "a", "l", "i", "d">>, <<"I", "n", "f", "o">>,
     <<"D", "E", "B", "U", "G">>, <<" ">> \o sInfo, sError \o <<"\n">>,
     <<"n", "o", "n">>, sDebug \o <<"g">>, <<"w", "a", "r", "n">>, <<"5">>}

\* the strings that are no level name even lowercased and trimmed, as the
\* applier does before it looks a level up
NoLevelNames == {s \in AnyLevelNames : ToLower(Trim(s)) \notin {sNone, sError, sInfo, sDebug}}

\* C22: for each of the four levels v, FromLevel(v.String()) is (v, true); for
\* every other string FromLevel is (LevelNone, false); and the lookup changes
\* nothing: in a running process a configuration that is one unknown level
\* name leaves every logger, scope and level as it was and reports one error.
C22_RoundTrip ==
    /\ \A v \in Levels : FromLevel(LevelString(v)) = [lvl |-> v, ok |-> TRUE]
    /\ \A s \in AnyLevelNames \ {sNone, sError, sInfo, sDebug} :
           FromLevel(s) = [lvl |-> LevelNone, ok |-> FALSE]
    /\ \A s \in NoLevelNames :
           Running =>
           LET st == Validate(S, s)
           IN /\ Len(st.errs) = 1
              /\ [st EXCEPT !.errs = <<>>] = S

\* no backend is bound and the scope "svc" has the level Info, which only the
\* configuration svc:info, looked up by FromLevel, gives it
C22_Witness ==
    /\ defaultLogger = 0
    /\ svc \in DOMAIN scopes
    /\ scLevel(S, scopes[svc]) = LevelInfo
    /\ FromLevel(LevelString(scLevel(S, scopes[svc]))).lvl = LevelInfo


\* C23: with PanicOnUninitialized off, Debug, Info and Error on a scope that
\* has no logger return normally and change nothing: no record, no metric, no
\* panic, and the scope table, the pending list, every scope and every level
\* cell are as they were.
C23_SilentUnbound ==
    ~PanicOnUninitialized =>
        \A h \in UnboundScopes, kv \in CallValues :
            /\ hDebug(S, h, "x", kv) = [S EXCEPT !.who = h]
            /\ hInfo(S, h, "ok", kv) = [S EXCEPT !.who = h]
            /\ hError(S, h, "ok", kv) = [S EXCEPT !.who = h]

\* the flag is off, no backend is bound, and a scope that is registered and
\* pending has a level that lets Info through
C23_Witness ==
    /\ ~PanicOnUninitialized
    /\ Running
    /\ defaultLogger = 0
    /\ \E h \in UnboundScopes :
           /\ hLevel(S, h) = LevelInfo
           /\ scs[Obj(h)].name \in DOMAIN uninitialized.m

\* C24: with PanicOnUninitialized on, in a running process, Debug, Info and
\* Error panic on a scope that has no logger, and on a scope that has one they
\* do not panic and emit as the level of the scope lets them.
C24_PanicOnlyUnbound ==
    (PanicOnUninitialized /\ Running) =>
        /\ \A h \in UnboundScopes :
               /\ hDebug(S, h, "x", <<>>).pn # ""
               /\ hInfo(S, h, "ok", <<>>).pn # ""
               /\ hError(S, h, "ok", <<>>).pn # ""
        /\ \A h \in BoundScopes :
               LET v == hLevel(S, h)
                   d == hDebug(S, h, "x", <<>>)
                   i == hInfo(S, h, "ok", <<>>)
                   e == hError(S, h, "ok", <<>>)
               IN /\ d.pn = "" /\ Gated(d, LevelDebug, v, "x")
                  /\ i.pn = "" /\ Gated(i, LevelInfo, v, "ok")
                  /\ e.pn = "" /\ Gated(e, LevelError, v, "ok")


\* the scopes on the pending list
Pending ==
    {p \in 1..Len(scs) :
        \E n \in DOMAIN uninitialized.m :
            \E i \in 1..Len(uninitialized.m[n]) : uninitialized.m[n][i] = p}

\* the scope p was bound by Register and by nothing else: it has a logger,
\* the level cell and the pair Register gave it
BoundDirectly(p) ==
    /\ scs[p].logger # 0
    /\ scs[p].level # 0
    /\ scs[p].kvs = <<Str(Key), Str(scs[p].name)>>

\* the scope p was bound by the replay of UseLogger: it has a logger and the
\* fields the replay clears are cleared
Replayed(p) ==
    /\ scs[p].logger # 0
    /\ scs[p].level = 0
    /\ scs[p].kvs = <<>>

\* C25: Register racing with UseLogger.  In every interleaving, whenever the
\* lock is free no scope on the pending list has a logger (a scope bound by
\* Register is never replayed), and once UseLogger has cleared the list every
\* scope Register has returned is bound, either directly by Register or by
\* the replay, with a logger that carries the pair "scope", name.
C25_BoundOnce ==
    /\ lock = 0 => \A p \in Pending : scs[p].logger = 0
    /\ (Running /\ uninitialized.isNil) =>
           \A h \in Registered :
               /\ BoundDirectly(Obj(h)) \/ Replayed(Obj(h))
               /\ fnScope(loggers[scs[Obj(h)].logger].args) = scs[Obj(h)].name

\* both calls have returned, one scope was bound by the replay and another
\* one by Register
C25_Witness ==
    /\ Running
    /\ InFlight = {}
    /\ uninitialized.isNil
    /\ \E a \in Registered, b \in Registered :
           Replayed(Obj(a)) /\ BoundDirectly(Obj(b))

\* C26: the lock is never held while a method of the backend runs: whenever
\* a goroutine is in a call of Clone, With, Context, Metric or SetLevel made
\* by Register or UseLogger, the lock is free.
C26_LockFreeInBackend ==
    \A t \in Threads : threads[t].call # "" => lock = 0

\* the scopes that With returned to the caller
Decorated == {h \in Hs : IsScope(h) /\ handles[h].via = "With"}

\* C27: the pending table is accessed only under the lock.  In every
\* interleaving of With on an unbound scope with Register and UseLogger, no
\* two goroutines are within an access to the table at the same time, every
\* goroutine within an access holds the lock, the table is not written after
\* UseLogger has cleared it, and no entry is lost: a scope that With returned
\* is on the pending list until it is bound.
C27_TableUnderLock ==
    /\ Cardinality({t \in Threads : MidAccess(t)}) <= 1
    /\ \A t \in Threads : MidAccess(t) => lock = t
    /\ panicked \notin {"assignment to entry in nil map", "concurrent map writes"}
    /\ \A h \in Decorated : scs[Obj(h)].logger # 0 \/ Obj(h) \in Pending


\* the callbacks passed so far, in the order they were passed
Passed == 1..(Len(callbacks) + Len(invoked))

\* C28: every callback passed to ToGlobalMetricSink is invoked exactly once.
\* ToGlobalMetricSink invokes it at once with the sink when there is one and
\* queues it otherwise; SetGlobalMetricSink(ms) invokes the queued callbacks
\* with ms in the order they were passed and empties the queue; so no
\* callback is invoked twice, none waits while there is a sink, and the
\* invocations are in the order the callbacks were passed.
C28_OnceInOrder ==
    /\ \A i \in 1..Len(invoked) : invoked[i].callback.n = i
    /\ \A i \in 1..Len(callbacks) : callbacks[i].n = Len(invoked) + i
    /\ metricSink # 0 => callbacks = <<>>
    /\ \A fn \in Functions :
           LET cb == [n |-> Len(callbacks) + Len(invoked) + 1, fn |-> fn]
               g == ToGlobalMetricSink(G, cb)
           IN IF metricSink # 0
              THEN g = [G EXCEPT !.invoked = Append(@, [callback |-> cb,
                                                        ms |-> metricSink])]
              ELSE g = [G EXCEPT !.callbacks = Append(@, cb)]
    /\ \A ms \in Sinks :
           LET g == SetGlobalMetricSink(G, ms)
           IN /\ g.metricSink = ms
              /\ g.callbacks = <<>>
              /\ g.invoked = invoked \o [i \in 1..Len(callbacks) |->
                                           [callback |-> callbacks[i], ms |-> ms]]
              /\ SetGlobalMetricSink(g, ms).invoked = g.invoked

\* one callback was invoked with a sink, the sink was then set to nil, and
\* two callbacks passed since wait for the next SetGlobalMetricSink
C28_Witness ==
    /\ Len(invoked) = 1
    /\ invoked[1].ms # 0
    /\ metricSink = 0
    /\ Len(callbacks) = 2
    /\ Len(SetGlobalMetricSink(G, 2).invoked) = 3


\* C29: bind preserves levels.  While no backend is bound, for every backend
\* UseLogger can be given and every scope the caller holds without a logger,
\* Level() after UseLogger is Level() before it; and every such scope that is
\* on the pending list (registered, or derived by With, Context or Metric) is
\* bound by UseLogger and then emits Debug, Info and Error exactly as the
\* level it had before bind lets through.
C29_BindPreservesLevels ==
    (Running /\ defaultLogger = 0) =>
        \A b \in Fns :
            LET st == hUseLogger(S, b)
            IN \A h \in UnboundScopes :
                   LET v == hLevel(S, h)
                   IN /\ hLevel(st, h) = v
                      /\ Obj(h) \in Pending =>
                             /\ st.sh[Obj(h)].logger # 0
                             /\ st.out = out
                             /\ Gated(hDebug(st, h, "x", <<>>), LevelDebug, v, "x")
                             /\ Gated(hInfo(st, h, "ok", <<>>), LevelInfo, v, "ok")
                             /\ Gated(hError(st, h, "ok", <<>>), LevelError, v, "ok")

\* a scope registered before bind and a logger derived from it before bind
\* were bound by the replay, have the level Debug, which is not the level of
\* the backend, and a Debug record was emitted through one of them
C29_Witness ==
    /\ defaultLogger # 0
    /\ \E h \in Registered, d \in BoundScopes :
           /\ Replayed(Obj(h)) /\ Replayed(Obj(d))
           /\ DerivedFrom(d, h)
           /\ hLevel(S, h) = LevelDebug /\ hLevel(S, d) = LevelDebug
           /\ DefaultLevel(S) # LevelDebug
           /\ \E i \in 1..Len(out) : out[i].by \in {h, d} /\ out[i].level = LevelDebug


\* C30: each pending scope is consumed exactly once at bind.  No scope is on
\* the pending list twice, whatever the number of Register calls of its name;
\* and after bind a scope that was registered before bind emits with the
\* key-values of the backend followed by the pair "scope", name, and nothing
\* of the loggers that were derived from it.
C30_ConsumedOnce ==
    /\ \A n \in DOMAIN uninitialized.m :
           \A i \in 1..Len(uninitialized.m[n]), j \in 1..Len(uninitialized.m[n]) :
               uninitialized.m[n][i] = uninitialized.m[n][j] => i = j
    /\ defaultLogger # 0 =>
           \A h \in Registered :
               Replayed(Obj(h)) =>
                   LET a == hError(hSetLevel(S, h, LevelError), h, "ok", <<>>)
                   IN /\ Len(a.out) = Len(out) + 1
                      /\ a.out[Len(a.out)].FromLogger =
                             loggers[defaultLogger].args
                                 \o <<Str(Key), Str(scs[Obj(h)].name)>>


\* the scopes that With, Context or Metric returned to the caller
Derived ==
    {h \in Hs : IsScope(h) /\ handles[h].via \in {"With", "Context", "Metric"}}

\* the pending table after UseLogger: the nil map
NoPending == [isNil |-> TRUE, m |-> EmptyMap]

\* the state st has a logger for every scope of the table and for every scope
\* that With, Context or Metric returned to the caller, and no pending table
AllBound(st) ==
    /\ \A n \in DOMAIN st.sc : st.sh[st.sc[n]].logger # 0
    /\ \A h \in Derived : st.sh[Obj(h)].logger # 0
    /\ st.un = NoPending

\* C31: after a successful UseLogger every scope of the table and every
\* logger that With, Context or Metric returned for a scope before bind has a
\* logger of the backend and the pending table is empty (nil); this is so for
\* the UseLogger the caller can make now and in every state that follows a
\* bind; and a Register call after bind, of a new name or of a registered one,
\* returns normally and leaves the pending table as it is.
C31_BoundAndTornDown ==
    Running =>
        /\ defaultLogger = 0 => \A b \in Fns : AllBound(hUseLogger(S, b))
        /\ defaultLogger # 0 =>
               /\ AllBound(S)
               /\ \A r \in AnyRegistration :
                      LET st == Register(S, r[1], r[2])
                      IN /\ st.un = NoPending
                         /\ st.pn = ""
                         /\ st.sh[st.ret.i].logger # 0

\* a backend is bound; a registered scope and a logger that Context or Metric
\* returned for it before bind were both bound by the replay
C31_Witness ==
    /\ Running
    /\ uninitialized = NoPending
    /\ \E h \in Registered, d \in Derived :
           /\ handles[d].parent = h
           /\ handles[d].via \in {"Context", "Metric"}
           /\ Replayed(Obj(h)) /\ Replayed(Obj(d))


\* the pairs of a list of key-values
PairsOf(kvs) == {<<kvs[i], kvs[i + 1]>> : i \in {j \in 1..(Len(kvs) - 1) : j % 2 = 1}}

\* the calls that derive a second logger from a scope in the properties
SiblingCalls ==
    {<<"With", <<Str(<<"b">>), IntVal(<<"2">>)>>>>,
     <<"Context", KeyValuesToContext(Background, <<Str(<<"r">>), Str(<<"2">>)>>)>>,
     <<"Metric", "m1">>}

\* the call c made on the scope p
derive(st, p, c) ==
    CASE c[1] = "With" -> scWith(st, p, c[2])
      [] c[1] = "Context" -> scContext(st, p, c[2])
      [] c[1] = "Metric" -> scMetric(st, p, c[2])

\* in the state st the scope p, bound, emits an Error record that carries
\* among the logger's values only the pair "scope", name and pairs of its own
\* call (via, arg), with the context of its own call or else the one Register
\* gave the scope, and records only the metric of its own call
OwnOnly(st, p, via, arg) ==
    LET a == scError(scSetLevel(st, p, LevelError), p, "ok", "error", <<>>)
        rec == a.out[Len(a.out)]
    IN /\ st.sh[p].logger # 0
       /\ Len(a.out) = Len(st.out) + 1
       /\ PairsOf(rec.FromLogger) \subseteq
              {<<Str(Key), Str(st.lg[st.sh[p].logger].args[2].v)>>}
                  \cup (IF via = "With"
                        THEN PairsOf(stringKeyPairs(padMissing(arg))) ELSE {})
       /\ rec.FromContext =
              KeyValuesFromContext(IF via = "Context" THEN arg ELSE Background)
       /\ a.cnt = IF via = "Metric" THEN [st.cnt EXCEPT ![arg] = @ + 1] ELSE st.cnt

\* C32: sibling isolation at bind.  While no backend is bound, for a scope s
\* the caller got from Register, a logger a it derived from s by With, Context
\* or Metric, and every second logger b derived from s now by With("b", 2),
\* Context or Metric: after UseLogger a and b each emit with the pair
\* "scope", name and their own decoration only, neither with the key-values,
\* the context or the metric of the other, and s with none of them.
C32_SiblingIsolation ==
    (Running /\ defaultLogger = 0) =>
        \A s \in Registered, a \in Derived :
            (handles[a].parent = s /\ s \in UnboundScopes /\ a \in UnboundScopes) =>
                \A c \in SiblingCalls :
                    LET d == derive(S, Obj(s), c)
                        st == UseLogger(d, 1)
                    IN /\ OwnOnly(st, Obj(a), handles[a].via, handles[a].arg)
                       /\ OwnOnly(st, d.ret.i, c[1], c[2])
                       /\ OwnOnly(st, Obj(s), "Register", <<>>)


\* the scope Register returned from which the handle h was obtained by With,
\* Context, Metric and Clone calls (0 = none, h itself for such a scope)
RECURSIVE Root(_)
Root(h) ==
    IF handles[h].via = "Register" THEN h
    ELSE IF handles[h].parent = 0 THEN 0
    ELSE Root(handles[h].parent)

\* the places of the key-values kvs at which the key "scope" stands
ScopeKeys(kvs) == {i \in 1..Len(kvs) : i % 2 = 1 /\ kvs[i] = Str(Key)}

\* C33: every record emitted through a scope, or through a logger obtained
\* from it by With, Context, Metric and Clone calls made before or after
\* bind, carries among the logger's key-values the key "scope" exactly once,
\* with the name of the scope as its value.
C33_ScopePairOnce ==
    \A h \in Bound :
        Root(h) # 0 =>
            LET a == hError(hSetLevel(S, h, LevelError), h, "ok", <<>>)
                kvs == a.out[Len(a.out)].FromLogger
            IN /\ Len(a.out) = Len(out) + 1
               /\ Cardinality(ScopeKeys(kvs)) = 1
               /\ HasPair(kvs, Str(Key), Str(scs[Obj(Root(h))].name))


\* C34: with PanicOnUninitialized off, no sequence of Register, With, Context,
\* Metric, Clone, SetLevel, Debug, Info, Error and UseLogger calls on the
\* loggers the caller holds ends in a runtime panic, the calls made after bind
\* on a scope cloned before bind included.
C34_NoPanic == ~PanicOnUninitialized => panicked = ""


\* C35: registration timing does not change the level.  While no backend is
\* bound, for every backend b the caller can bind, of level D, and every name
\* that is not registered: the scope has Level() = D after bind, both when it
\* is registered first and b bound next, and when b is bound first and the
\* scope registered next; no SetLevel is called on it in between.
C35_TimingFree ==
    (Running /\ defaultLogger = 0) =>
        \A b \in Fns, r \in NewRegistrations(S) :
            LET D == fnLevel(S, Obj(b))
                early == hUseLogger(Register(S, r[1], r[2]), b)
                late == Register(hUseLogger(S, b), r[1], r[2])
            IN /\ scLevel(late, late.ret.i) = D
               /\ scLevel(early, early.sc[normalize(r[1])]) = D


\* C36: after bind, SetDefaultLevel(x) makes DefaultLevel() and the level of
\* a scope registered next the clamp of x, and changes the Level() of no
\* scope that is registered already, whether the scope was ever given a level
\* of its own or not.
C36_DefaultLevelFrame ==
    (Running /\ defaultLogger # 0) =>
        \A x \in AnyLevel :
            LET st == SetDefaultLevel(S, x)
            IN /\ DefaultLevel(st) = clampLevel(x)
               /\ \A r \in NewRegistrations(st) :
                      LET t == Register(st, r[1], r[2])
                      IN scLevel(t, t.ret.i) = clampLevel(x)
               /\ \A n \in DOMAIN scopes :
                      scLevel(st, scopes[n]) = scLevel(S, scopes[n])


\* in the state st every logger the caller holds, every scope of the table
\* and the default logger have one of the four levels
FourLevels(st) ==
    /\ \A h \in Hs : hLevel(st, h) \in Levels
    /\ \A n \in DOMAIN st.sc : scLevel(st, st.sc[n]) \in Levels
    /\ DefaultLevel(st) \in Levels

\* C37: in every reachable state Level() of every logger (function Logger,
\* scope without a logger, scope with one, default logger) is None (0),
\* Error (1), Info (5) or Debug (10), and it still is after SetLevel on any
\* logger and after SetAllScopes, whatever integer they are given.
C37_LevelsDefined ==
    /\ Levels = {0, 1, 5, 10}
    /\ FourLevels(S)
    /\ \A x \in AnyLevel :
           /\ \A h \in Hs : FourLevels(hSetLevel(S, h, x))
           /\ FourLevels(SetAllScopes(S, x))

\* a backend is bound; a scope with a logger has the level Error and a scope
\* without one the level Debug, which only SetLevel(3) and SetLevel(11) give
C37_Witness ==
    /\ defaultLogger # 0
    /\ \E h \in BoundScopes, u \in UnboundScopes :
           /\ hLevel(S, h) = LevelError
           /\ hLevel(S, u) = LevelDebug


\* C38: contexts are persistent values.  For every context c the caller
\* holds and all values ps: KeyValuesToContext(c, ps) returns a context with
\* the list of c followed by ps and leaves the list of every context the
\* caller holds as it was, as does RemoveKeyValuesFromContext(c); and when a
\* second context is derived from c with the values qs, the first one still
\* has the list of c followed by ps and the second the list of c followed by
\* qs, whatever the length of the list of c.
C38_Persistent ==
    \A i \in 1..Len(ctxs) :
        LET was == KeyValuesFromContextMem(arrays, ctxs[i])
            r == RemoveKeyValuesFromContextMem(M, ctxs[i])
        IN /\ r.ar = arrays
           /\ KeyValuesFromContextMem(r.ar, r.ret) = <<>>
           /\ \A ps \in AnyPairs :
                  LET a == KeyValuesToContextMem(M, ctxs[i], ps)
                  IN /\ KeyValuesFromContextMem(a.ar, a.ret) = was \o padMissing(ps)
                     /\ \A j \in 1..Len(ctxs) :
                            KeyValuesFromContextMem(a.ar, ctxs[j]) =
                                KeyValuesFromContextMem(arrays, ctxs[j])
                     /\ \A qs \in AnyPairs :
                            LET b == KeyValuesToContextMem(a, ctxs[i], qs)
                            IN /\ KeyValuesFromContextMem(b.ar, a.ret) =
                                      was \o padMissing(ps)
                               /\ KeyValuesFromContextMem(b.ar, b.ret) =
                                      was \o padMissing(qs)


\* the commands passed to Validate in the properties about the order of tokens
OrderCommands ==
    { svc \o <<":">> \o sDebug \o <<",">> \o sError,
      sError \o <<",">> \o svc \o <<":">> \o sDebug,
      svc \o <<":">> \o sInfo \o <<",">> \o svc \o <<":">> \o sNone,
      <<"b", ":">> \o sInfo \o <<",", " ", "D", "E", "B", "U", "G", " ", ",", "b", ":">> \o sError,
      sInfo \o <<",", "b", "a", "d", ",">> \o svc \o <<":", "x", ":", "y", ",">> \o sDebug,
      <<":">> \o sDebug,
      svc \o <<":", "w", "a", "r", "n", ",", " ">> \o svc \o <<" ", ":", " ">> \o sError }

\* the token is valid and is a level on its own
bareLevel(tok) == Len(Split(tok, ":")) = 1 /\ FromLevel(Trim(tok)).ok

\* the token is valid and names the registered scope n
namesScope(tok, n) ==
    LET osl == Split(tok, ":")
    IN Len(osl) = 2 /\ FromLevel(Trim(osl[2])).ok /\ normalize(osl[1]) = n

\* the level of a valid token
tokenLevel(tok) ==
    LET osl == Split(tok, ":") IN FromLevel(Trim(osl[Len(osl)])).lvl

\* the level of the last of the tokens at the places hits, or else was
lastLevel(tokens, hits, was) ==
    IF hits = {} THEN was
    ELSE tokenLevel(tokens[CHOOSE i \in hits : \A j \in hits : j <= i])

\* C39: with a backend bound, in a running process, for the scopes that are
\* registered, with or without one more scope registered first, and for
\* every command for which Validate returns: the level of each scope is the
\* level of the last valid token that is a level on its own or names the
\* scope (its level before the call when there is none), and DefaultLevel()
\* is the level of the last valid token that is a level on its own (the
\* default level before the call when there is none).
C39_LeftToRight ==
    (Running /\ defaultLogger # 0) =>
        \A s0 \in {S} \cup {Register(S, r[1], r[2]) : r \in AnyRegistration} :
            \A cmd \in OrderCommands :
                LET st == Validate(s0, cmd)
                    tokens == Split(ToLower(cmd), ",")
                    T == 1..Len(tokens)
                IN st.pn = "" =>
                       /\ DefaultLevel(st) =
                              lastLevel(tokens, {i \in T : bareLevel(tokens[i])},
                                        DefaultLevel(s0))
                       /\ \A n \in DOMAIN s0.sc :
                              scLevel(st, s0.sc[n]) =
                                  lastLevel(tokens,
                                            {i \in T : \/ bareLevel(tokens[i])
                                                       \/ namesScope(tokens[i], n)},
                                            scLevel(s0, s0.sc[n]))

====
